---------------------------- MODULE Spec2Model ----------------------------
(***************************************************************************)
(* Model of the composite fluency scorer of team-invinsible/en_analysis    *)
(* (src/fluency_evaluator.py, class FluencyEvaluator) and of the scripts   *)
(* that produce its tables: the stress analysis                            *)
(* (src/scripts/stressAnalysis_mfa_monosyllabic.py), the stress dictionary *)
(* (src/plspp/scripts/plsppWeb/stressDictionaryMaker.py) and the pause     *)
(* type tagger (src/plspp/scripts/extra_pauseTypeTagger.py).               *)
(*                                                                         *)
(* The evaluator loads two ';'-separated tables with csv.DictReader        *)
(* (stressTable.csv, pauseTable.csv), keeps their rows in                  *)
(* self.stress_data / self.pause_data, and evaluates every speaker found   *)
(* in either table.                                                        *)
(*                                                                         *)
(* Numbers.  Python floats are modelled in fixed point:                    *)
(*   - times and durations are integers in milliseconds,                   *)
(*   - pitch values are integers in Hz,                                    *)
(*   - the rescaled score (raw * 0.3) is an integer in thousandths.        *)
(* Every comparison of the code is rewritten as the equivalent comparison  *)
(* of integers (a mean m = s/n satisfies m <= c iff s <= c*n).  Rounding   *)
(* of binary floating point is not modelled: on the input sets below the   *)
(* code's float results and the exact ones agree, while e.g. a word from   *)
(* 1.0 s to 1.6 s has the float length 0.6000000000000001 s.               *)
(*                                                                         *)
(* CSV fields.  A field of a row is text, or None when the line is shorter *)
(* than the header (csv.DictReader's restval).  A scalar field is a record *)
(* [t, v]: t is the lexical form of the text and v its value,              *)
(*   "int"  : an integer literal        int() and float() both parse it    *)
(*   "dec"  : a decimal literal         float() parses it, int() raises    *)
(*                                      ValueError                         *)
(*   "bad"  : any other text            int() and float() raise ValueError *)
(*   "none" : None                      int() and float() raise TypeError  *)
(* A list field (syllF0, sylldur) is a record [t, v]:                      *)
(*   "list" : comma separated literals, v the sequence of their values     *)
(*   "bad"  : some element is not a literal (the empty string included)    *)
(*   "none" : None, on which .strip raises AttributeError                  *)
(***************************************************************************)
EXTENDS Integers, Sequences, FiniteSets, TLC

VARIABLES
    stress_data,   \* self.stress_data: the rows of stressTable.csv
    pause_data,    \* self.pause_data: the rows of pauseTable.csv
    pc,            \* "load": rows are being read; "done": evaluate_all_speakers
                   \* returned; "raised": it ended with an uncaught exception
    results,       \* the list evaluate_all_speakers returned
    call,          \* the last direct call of a function: [arg, ret]
    cmu_dictionary,\* the lines of the CMU dictionary file, each a sequence
                   \* of characters
    grid,          \* the word intervals of the input TextGrids with their
                   \* POS tag and the measures of their vowels
    gabarits,      \* stress script: word -> list of stress digit strings
    stressTable,   \* stress script: the rows of the target words
    spk2deciles,   \* stress script: speaker -> the three percentile scales
    step           \* position of the stress script: "input", "gabarits",
                   \* "pass1", "deciles", "pass2", "exported", "raised"

evaluator_vars == <<stress_data, pause_data, pc, results, call>>

script_vars == <<cmu_dictionary, grid, gabarits, stressTable, spk2deciles, step>>

vars == <<stress_data, pause_data, pc, results, call,
          cmu_dictionary, grid, gabarits, stressTable, spk2deciles, step>>

-----------------------------------------------------------------------------
(* Field values *)

Int_(n) == [t |-> "int", v |-> n]
Dec(n) == [t |-> "dec", v |-> n]
Bad == [t |-> "bad", v |-> 0]
NoneField == [t |-> "none", v |-> 0]
List(s) == [t |-> "list", v |-> s]
BadList == [t |-> "bad", v |-> <<>>]
NoneList == [t |-> "none", v |-> <<>>]

\* float(x): returns for integer and decimal literals
float_ok(f) == f.t \in {"int", "dec"}
\* int(x): returns for integer literals only
int_ok(f) == f.t = "int"
\* float(x) / int(x) on None: TypeError, which no handler of the evaluator catches
type_error(f) == f.t = "none"

-----------------------------------------------------------------------------
(* Sequence helpers *)

RECURSIVE SumSeq(_)
SumSeq(s) == IF s = <<>> THEN 0 ELSE Head(s) + SumSeq(Tail(s))

Max(a, b) == IF a >= b THEN a ELSE b

\* "if speaker_id: data = [row for row in data if row.get('spk') == speaker_id]":
\* a falsy speaker_id (None, '') selects every row
RowsOf(data, speaker_id) ==
    IF speaker_id = "" THEN data
    ELSE SelectSeq(data, LAMBDA row : row.spk = speaker_id)

-----------------------------------------------------------------------------
(* calculate_pause_score *)

\* Mutant of significant_pauses: the window [0.5 s, 2.0 s) instead of >= 0.5 s
significant_pauses_window(speaker_id) ==
    LET rows == RowsOf(pause_data, speaker_id)
        kept == SelectSeq(rows, LAMBDA row :
                    /\ float_ok(row.duration)
                    /\ row.duration.v >= 500
                    /\ row.duration.v < 2000)
    IN  [i \in 1..Len(kept) |-> kept[i].duration.v]

\* the durations the loop of lines 69-76 keeps: parseable and >= 0.5 s
significant_pauses(speaker_id) ==
    LET rows == RowsOf(pause_data, speaker_id)
        kept == SelectSeq(rows, LAMBDA row :
                    float_ok(row.duration) /\ row.duration.v >= 500)
    IN  [i \in 1..Len(kept) |-> kept[i].duration.v]

\* float(None) in line 72 is a TypeError; the handler of line 75 catches
\* ValueError and KeyError only
pause_raises(speaker_id) ==
    LET rows == RowsOf(pause_data, speaker_id)
    IN  \E i \in 1..Len(rows) : type_error(rows[i].duration)

\* Mutant of calculate_pause_score: the penalty is not floored at 0
pause_score_unfloored(speaker_id) ==
    LET rows == RowsOf(pause_data, speaker_id)
        sig == significant_pauses(speaker_id)
        n == Len(sig)
        total == SumSeq(sig)
        base_score == IF total <= 700 * n THEN 20
                      ELSE IF total <= 1500 * n THEN 10
                      ELSE 5
        long_pauses == SelectSeq(sig, LAMBDA p : p >= 1500)
        penalty == Len(long_pauses) * 2
    IN  IF rows = <<>> THEN 0
        ELSE IF sig = <<>> THEN 20
        ELSE base_score - penalty

\* variant: the base scores of the short and of the long mean are exchanged
pause_score_inverted(speaker_id) ==
    LET rows == RowsOf(pause_data, speaker_id)
        sig == significant_pauses(speaker_id)
        n == Len(sig)
        total == SumSeq(sig)
        base_score == IF total <= 700 * n THEN 5
                      ELSE IF total <= 1500 * n THEN 10
                      ELSE 20
        long_pauses == SelectSeq(sig, LAMBDA p : p >= 1500)
        penalty == Len(long_pauses) * 2
    IN  IF rows = <<>> THEN 0
        ELSE IF sig = <<>> THEN 20
        ELSE Max(0, base_score - penalty)

calculate_pause_score(speaker_id) ==
    LET rows == RowsOf(pause_data, speaker_id)
        sig == significant_pauses(speaker_id)
        n == Len(sig)
        total == SumSeq(sig)
        base_score == IF total <= 700 * n THEN 20
                      ELSE IF total <= 1500 * n THEN 10
                      ELSE 5
        long_pauses == SelectSeq(sig, LAMBDA p : p >= 1500)
        penalty == Len(long_pauses) * 2
    IN  IF rows = <<>> THEN 0
        ELSE IF sig = <<>> THEN 20
        ELSE Max(0, base_score - penalty)

-----------------------------------------------------------------------------
(* calculate_speed_score *)

RECURSIVE total_duration(_)
\* lines 122-130: the sum of endTime - startTime over the rows whose two times
\* parse; a row with an unparseable time is skipped
total_duration(rows) ==
    IF rows = <<>> THEN 0
    ELSE LET row == Head(rows)
             d == IF float_ok(row.startTime) /\ float_ok(row.endTime)
                  THEN row.endTime.v - row.startTime.v
                  ELSE 0
         IN  d + total_duration(Tail(rows))

RECURSIVE total_syllables(_)
\* lines 138-144: the sum of int(lenSyllxpos) over the rows where it parses
total_syllables(rows) ==
    IF rows = <<>> THEN 0
    ELSE LET row == Head(rows)
             n == IF int_ok(row.lenSyllxpos) THEN row.lenSyllxpos.v ELSE 0
         IN  n + total_syllables(Tail(rows))

\* Mutant of spm_at_least: spm > limit
spm_above(syllables, duration_ms, limit) ==
    syllables * 60000 > limit * duration_ms

\* spm >= limit, with spm = total_syllables / (total_duration_seconds / 60)
spm_at_least(syllables, duration_ms, limit) ==
    syllables * 60000 >= limit * duration_ms

speed_raises(speaker_id) ==
    LET rows == RowsOf(stress_data, speaker_id)
    IN  \/ \E i \in 1..Len(rows) :
              \/ type_error(rows[i].startTime)
              \/ float_ok(rows[i].startTime) /\ type_error(rows[i].endTime)
        \/ /\ total_duration(rows) > 0
           /\ \E i \in 1..Len(rows) : type_error(rows[i].lenSyllxpos)

calculate_speed_score(speaker_id) ==
    LET rows == RowsOf(stress_data, speaker_id)
        d == total_duration(rows)
        n == total_syllables(rows)
    IN  IF rows = <<>> THEN 0
        ELSE IF d <= 0 THEN 0
        ELSE IF spm_at_least(n, d, 260) THEN 20
        ELSE IF spm_at_least(n, d, 230) THEN 17
        ELSE IF spm_at_least(n, d, 200) THEN 15
        ELSE IF spm_at_least(n, d, 170) THEN 12
        ELSE IF spm_at_least(n, d, 140) THEN 10
        ELSE IF spm_at_least(n, d, 110) THEN 7
        ELSE IF spm_at_least(n, d, 100) THEN 5
        ELSE 0

-----------------------------------------------------------------------------
(* calculate_f0_score *)

\* a row whose expectedStressPosition and list field both parse (the try block
\* of lines 194-210 and 255-283 runs to its loop)
row_parses(row, field) == int_ok(row.expectedStressPosition) /\ field.t = "list"

\* the row raises out of the try block: int(None) is a TypeError and
\* None.strip an AttributeError, and only ValueError, KeyError and IndexError
\* are caught.  The list field is read only after the position parsed.
row_raises(row, field) ==
    \/ type_error(row.expectedStressPosition)
    \/ int_ok(row.expectedStressPosition) /\ field.t = "none"

RECURSIVE stressed_f0_any(_)
\* Mutant of stressed_f0_values: unvoiced syllables (pitch 0) are pooled too
stressed_f0_any(rows) ==
    IF rows = <<>> THEN <<>>
    ELSE LET row == Head(rows)
             f0 == row.syllF0.v
             pos == row.expectedStressPosition.v
             own == IF row_parses(row, row.syllF0) /\ pos \in 1..Len(f0)
                    THEN <<f0[pos]>>
                    ELSE <<>>
         IN  own \o stressed_f0_any(Tail(rows))

RECURSIVE stressed_f0_values(_)
\* lines 202-205: the positive pitch values at the expected stress position
stressed_f0_values(rows) ==
    IF rows = <<>> THEN <<>>
    ELSE LET row == Head(rows)
             f0 == row.syllF0.v
             pos == row.expectedStressPosition.v
             own == IF row_parses(row, row.syllF0)
                    THEN SelectSeq([i \in 1..Len(f0) |-> IF i = pos THEN f0[i] ELSE 0],
                                   LAMBDA x : x > 0)
                    ELSE <<>>
         IN  own \o stressed_f0_values(Tail(rows))

RECURSIVE unstressed_f0_values(_)
\* lines 202-207: the positive pitch values at every other position
unstressed_f0_values(rows) ==
    IF rows = <<>> THEN <<>>
    ELSE LET row == Head(rows)
             f0 == row.syllF0.v
             pos == row.expectedStressPosition.v
             own == IF row_parses(row, row.syllF0)
                    THEN SelectSeq([i \in 1..Len(f0) |-> IF i # pos THEN f0[i] ELSE 0],
                                   LAMBDA x : x > 0)
                    ELSE <<>>
         IN  own \o unstressed_f0_values(Tail(rows))

\* 12 * log2(mean(s) / mean(u)) <= 0.5, i.e. mean(s) / mean(u) <= 2^(1/24).
\* 10503/10204 is the continued-fraction convergent just below 2^(1/24); no
\* fraction with a denominator below 46993 lies between the two, so the
\* integer comparison decides the real one while sum_u * n_s < 46993 (pitch
\* values of at most 300 Hz, at most 8 of them unstressed, at most 4 stressed).
st_at_most_half(sum_s, n_s, sum_u, n_u) ==
    (sum_s * n_u) * 10204 <= 10503 * (sum_u * n_s)

\* 12 * log2(mean(s) / mean(u)) <= 1.0, i.e. mean(s) / mean(u) <= 2^(1/12).
\* 7893/7450 is the convergent just below 2^(1/12); no fraction with a
\* denominator below 25293 lies between the two.
st_at_most_one(sum_s, n_s, sum_u, n_u) ==
    (sum_s * n_u) * 7450 <= 7893 * (sum_u * n_s)

f0_raises(speaker_id) ==
    LET rows == RowsOf(stress_data, speaker_id)
    IN  \E i \in 1..Len(rows) : row_raises(rows[i], rows[i].syllF0)

calculate_f0_score(speaker_id) ==
    LET rows == RowsOf(stress_data, speaker_id)
        s == stressed_f0_values(rows)
        u == unstressed_f0_values(rows)
        sum_s == SumSeq(s)
        sum_u == SumSeq(u)
    IN  IF rows = <<>> THEN 0
        ELSE IF s = <<>> \/ u = <<>> THEN 0
        ELSE IF sum_s * Len(u) <= sum_u * Len(s) THEN 0     \* st_difference <= 0
        ELSE IF st_at_most_half(sum_s, Len(s), sum_u, Len(u)) THEN 10
        ELSE IF st_at_most_one(sum_s, Len(s), sum_u, Len(u)) THEN 20
        ELSE 30

-----------------------------------------------------------------------------
(* calculate_duration_score *)

\* Python's seq[k] for an integer k: negative indices count from the end.
\* index_ok is FALSE where Python raises IndexError.
index_ok(seq, k) == -Len(seq) <= k /\ k < Len(seq)
py_index(seq, k) == IF k >= 0 THEN seq[k + 1] ELSE seq[Len(seq) + k + 1]

\* Mutant of duration_row_counted: single-syllable words are counted too
duration_row_counted_any(row) ==
    /\ row_parses(row, row.sylldur)
    /\ index_ok(row.sylldur.v, row.expectedStressPosition.v - 1)

\* lines 256-263 and 265: the row reaches "total_words += 1"
duration_row_counted(row) ==
    /\ row_parses(row, row.sylldur)
    /\ Len(row.sylldur.v) >= 2
    /\ index_ok(row.sylldur.v, row.expectedStressPosition.v - 1)

\* lines 265-278: duration_ratio >= 1.2 for a counted row
duration_row_correct(row) ==
    LET dur == row.sylldur.v
        pos == row.expectedStressPosition.v
        stressed_dur == py_index(dur, pos - 1)
        unstressed_durs == SelectSeq([i \in 1..Len(dur) |-> IF i # pos THEN i ELSE 0],
                                     LAMBDA i : i > 0)
        n_u == Len(unstressed_durs)
        sum_u == SumSeq([j \in 1..n_u |-> dur[unstressed_durs[j]]])
    IN  /\ n_u > 0
        /\ sum_u > 0                                   \* avg_unstressed_dur > 0
        /\ stressed_dur * n_u * 10 >= 12 * sum_u       \* ratio >= 1.2

duration_raises(speaker_id) ==
    LET rows == RowsOf(stress_data, speaker_id)
    IN  \E i \in 1..Len(rows) : row_raises(rows[i], rows[i].sylldur)

\* the table of lines 291-298 on correct / total * 100
duration_table(correct, total) ==
    IF correct * 100 >= 80 * total THEN 15
    ELSE IF correct * 100 >= 60 * total THEN 10
    ELSE IF correct * 100 >= 40 * total THEN 5
    ELSE 0

calculate_duration_score(speaker_id) ==
    LET rows == RowsOf(stress_data, speaker_id)
        counted == SelectSeq(rows, duration_row_counted)
        total_words == Len(counted)
        correct_duration_words == Len(SelectSeq(counted, duration_row_correct))
    IN  IF rows = <<>> THEN 0
        ELSE IF total_words = 0 THEN 0
        ELSE duration_table(correct_duration_words, total_words)

-----------------------------------------------------------------------------
(* calculate_stress_accuracy_score *)

accuracy_raises(speaker_id) ==
    LET rows == RowsOf(stress_data, speaker_id)
    IN  \E i \in 1..Len(rows) : type_error(rows[i].expectedIsObserved)

\* Mutant of accuracy_table: exclusive lower bounds
accuracy_table_exclusive(correct, total) ==
    IF correct * 100 > 70 * total THEN 15
    ELSE IF correct * 100 > 55 * total THEN 10
    ELSE IF correct * 100 > 40 * total THEN 5
    ELSE 0

\* the table of lines 334-341 on correct / total * 100
accuracy_table(correct, total) ==
    IF correct * 100 >= 70 * total THEN 15
    ELSE IF correct * 100 >= 55 * total THEN 10
    ELSE IF correct * 100 >= 40 * total THEN 5
    ELSE 0

calculate_stress_accuracy_score(speaker_id) ==
    LET rows == RowsOf(stress_data, speaker_id)
        counted == SelectSeq(rows, LAMBDA row : int_ok(row.expectedIsObserved))
        total_words == Len(counted)
        correct_stress == Len(SelectSeq(counted,
                              LAMBDA row : row.expectedIsObserved.v = 1))
    IN  IF rows = <<>> THEN 0
        ELSE IF total_words = 0 THEN 0
        ELSE accuracy_table(correct_stress, total_words)

-----------------------------------------------------------------------------
(* Bracket conversion.  The argument is in thousandths.  The grade labels  *)
(* of the source are Korean; they are written here in romanised form:      *)
(*   choeusu = "최우수", usu = "우수", botong = "보통",                    *)
(*   miheup = "미흡", bujok = "부족", midal = "미달".                      *)

convert_model_score_to_bracket(raw_score) ==
    IF raw_score >= 25000 THEN [score |-> 30, grade |-> "choeusu"]
    ELSE IF raw_score >= 20000 THEN [score |-> 26, grade |-> "usu"]
    ELSE IF raw_score >= 15000 THEN [score |-> 21, grade |-> "botong"]
    ELSE IF raw_score >= 10000 THEN [score |-> 15, grade |-> "miheup"]
    ELSE IF raw_score >= 5000 THEN [score |-> 10, grade |-> "bujok"]
    ELSE [score |-> 0, grade |-> "midal"]

\* Mutant of convert_pronunciation_score_to_bracket: exclusive lower bounds
bracket_exclusive(raw_score) ==
    IF raw_score > 25000 THEN [score |-> 30, grade |-> "choeusu"]
    ELSE IF raw_score > 20000 THEN [score |-> 26, grade |-> "usu"]
    ELSE IF raw_score > 15000 THEN [score |-> 21, grade |-> "botong"]
    ELSE IF raw_score > 10000 THEN [score |-> 15, grade |-> "miheup"]
    ELSE IF raw_score > 5000 THEN [score |-> 10, grade |-> "bujok"]
    ELSE [score |-> 0, grade |-> "midal"]

convert_pronunciation_score_to_bracket(raw_score) ==
    IF raw_score >= 25000 THEN [score |-> 30, grade |-> "choeusu"]
    ELSE IF raw_score >= 20000 THEN [score |-> 26, grade |-> "usu"]
    ELSE IF raw_score >= 15000 THEN [score |-> 21, grade |-> "botong"]
    ELSE IF raw_score >= 10000 THEN [score |-> 15, grade |-> "miheup"]
    ELSE IF raw_score >= 5000 THEN [score |-> 10, grade |-> "bujok"]
    ELSE [score |-> 0, grade |-> "midal"]

-----------------------------------------------------------------------------
(* evaluate_speaker, get_speaker_ids *)

\* Mutant of rescale: the raw score, not rescaled
rescale_unscaled(pronunciation_raw_score) == pronunciation_raw_score * 1000

\* Mutant of rescale: the raw score times 0.2
rescale_fifth(pronunciation_raw_score) == pronunciation_raw_score * 200

\* pronunciation_raw_score * 0.3, in thousandths
rescale(pronunciation_raw_score) == pronunciation_raw_score * 300

evaluate_speaker(speaker_id) ==
    LET model == convert_model_score_to_bracket(85000)
        pause_score == calculate_pause_score(speaker_id)
        speed_score == calculate_speed_score(speaker_id)
        f0_score == calculate_f0_score(speaker_id)
        duration_score == calculate_duration_score(speaker_id)
        stress_accuracy_score == calculate_stress_accuracy_score(speaker_id)
        pronunciation_raw_score == pause_score + speed_score + f0_score
                                   + duration_score + stress_accuracy_score
        pronunciation_30_score == rescale(pronunciation_raw_score)
        final == convert_pronunciation_score_to_bracket(pronunciation_30_score)
    IN  [speaker_id |-> IF speaker_id = "" THEN "all" ELSE speaker_id,
         model_score |-> model.score,
         model_grade |-> model.grade,
         pause_score |-> pause_score,
         speed_score |-> speed_score,
         f0_score |-> f0_score,
         duration_score |-> duration_score,
         stress_accuracy_score |-> stress_accuracy_score,
         pronunciation_raw_score |-> pronunciation_raw_score,
         pronunciation_30_score |-> pronunciation_30_score,
         pronunciation_final_score |-> final.score,
         pronunciation_grade |-> final.grade,
         final_score |-> final.score]

\* an exception leaves one of the five calculate_* calls of lines 395-399
evaluate_speaker_raises(speaker_id) ==
    \/ pause_raises(speaker_id)
    \/ speed_raises(speaker_id)
    \/ f0_raises(speaker_id)
    \/ duration_raises(speaker_id)
    \/ accuracy_raises(speaker_id)

\* the speaker ids of the model, in sorted() order; "" is the empty spk field
SpeakerOrder == <<"2", "2_9", "A", "B", "B_1", "C">>

\* lines 39-47: the non-empty spk values of both tables
speaker_id_set ==
    ({stress_data[i].spk : i \in 1..Len(stress_data)}
        \cup {pause_data[i].spk : i \in 1..Len(pause_data)}) \ {""}

get_speaker_ids == SelectSeq(SpeakerOrder, LAMBDA s : s \in speaker_id_set)

-----------------------------------------------------------------------------
(* Rows of the two tables *)

StressRow(spk, startTime, endTime, lenSyllxpos, expectedStressPosition, syllF0, sylldur, expectedIsObserved) ==
    [spk |-> spk, startTime |-> startTime, endTime |-> endTime,
     lenSyllxpos |-> lenSyllxpos,
     expectedStressPosition |-> expectedStressPosition,
     syllF0 |-> syllF0, sylldur |-> sylldur,
     expectedIsObserved |-> expectedIsObserved]

PauseRow(spk, duration) == [spk |-> spk, duration |-> duration]

\* a two-syllable word of 0.5 s, stressed on its first syllable
PlainRow(spk) ==
    StressRow(spk, Dec(1000), Dec(1500), Int_(2), Int_(1),
              List(<<210, 200>>), List(<<150, 100>>), Int_(1))

\* the same word with other times and syllable count
SpeedRow(spk, startTime, endTime, lenSyllxpos) ==
    [PlainRow(spk) EXCEPT !.startTime = startTime, !.endTime = endTime,
                          !.lenSyllxpos = lenSyllxpos]

\* the same word with another stress position and other pitch values
F0Row(spk, expectedStressPosition, syllF0) ==
    [PlainRow(spk) EXCEPT !.expectedStressPosition = expectedStressPosition,
                          !.syllF0 = syllF0]

\* the same word with another stress position and other syllable durations
DurRow(spk, expectedStressPosition, sylldur) ==
    [PlainRow(spk) EXCEPT !.expectedStressPosition = expectedStressPosition,
                          !.sylldur = sylldur]

\* the same word with another expectedIsObserved field
AccRow(spk, expectedIsObserved) ==
    [PlainRow(spk) EXCEPT !.expectedIsObserved = expectedIsObserved]

\* a three-syllable word of 1 s, stressed on its second syllable and
\* observed with another shape
LongRow(spk) ==
    StressRow(spk, Dec(2000), Dec(3000), Int_(3), Int_(2),
              List(<<200, 210, 200>>), List(<<100, 150, 100>>), Int_(0))

\* a line cut after its first field: every other field is None
ShortStressRow(spk) ==
    StressRow(spk, NoneField, NoneField, NoneField, NoneField,
              NoneList, NoneList, NoneField)

\* a line cut before the startTime column (the times are the last columns
\* the evaluator reads)
CutStressRow(spk) ==
    [PlainRow(spk) EXCEPT !.startTime = NoneField, !.endTime = NoneField]

\* a line whose fields are all unparseable text
BadStressRow(spk) ==
    StressRow(spk, Bad, Bad, Bad, Bad, BadList, BadList, Bad)

-----------------------------------------------------------------------------
(* Bounds and input sets *)

MaxStressRows == 3
MaxPauseRows == 1
MaxSpeakerRows == 1
MaxPauses == 3
MaxSpeedRows == 3
MaxF0Rows == 3
MaxDurationRows == 5
MaxAccuracyRows == 20
MaxRescaled == 30000

\* the whole evaluator: well-formed and malformed rows of two speakers
StressRows ==
    { PlainRow("A"),
      DurRow("A", Int_(1), List(<<100, 100>>)),
      LongRow("A"),
      BadStressRow("A"), ShortStressRow("A"), CutStressRow("A"),
      PlainRow("B"), ShortStressRow("B") }

PauseRows ==
    { PauseRow("A", Dec(600)), PauseRow("A", Dec(2100)), PauseRow("A", Bad),
      PauseRow("A", NoneField), PauseRow("B", Dec(600)),
      PauseRow("B", NoneField) }

\* pause score: durations around 0.5 s, 0.7 s and 1.5 s
PauseDurations ==
    { PauseRow("A", Dec(300)), PauseRow("A", Dec(500)), PauseRow("A", Dec(600)),
      PauseRow("A", Dec(700)), PauseRow("A", Dec(900)), PauseRow("A", Dec(1500)),
      PauseRow("A", Dec(2100)), PauseRow("A", Int_(2000)), PauseRow("A", Bad),
      PauseRow("B", Dec(600)), PauseRow("B", Dec(2100)) }

SpeakerRows == { PlainRow("A"), PlainRow("B") }

\* speed score: word lengths of 0 s, 0.5 s, 1 s and 1.5 s (times that binary
\* floating point holds exactly), 1 to 5 syllables
SpeedRows ==
    { SpeedRow("A", Dec(1000), Dec(e), Int_(n)) :
          e \in {1500, 2000, 2500}, n \in {1, 2, 3, 5} }
    \cup { SpeedRow("A", Dec(1000), Dec(1000), Int_(2)),
           SpeedRow("A", Bad, Dec(1500), Int_(2)),
           SpeedRow("A", Dec(1000), Bad, Int_(2)),
           SpeedRow("A", Dec(1000), Dec(1500), Bad),
           SpeedRow("A", Dec(1000), Dec(1500), Dec(2)),
           SpeedRow("B", Dec(1000), Dec(1500), Int_(3)) }

\* pitch score: ratios on both sides of 1, 2^(1/24) and 2^(1/12)
F0Rows ==
    { F0Row("A", Int_(1), List(<<220, 200>>)),
      F0Row("A", Int_(1), List(<<204, 200>>)),
      F0Row("A", Int_(2), List(<<200, 210>>)),
      F0Row("A", Int_(2), List(<<200, 200>>)),
      F0Row("A", Int_(1), List(<<190, 200, 200>>)),
      F0Row("A", Int_(1), List(<<0, 200>>)),
      F0Row("A", Int_(1), List(<<230>>)),
      F0Row("A", Int_(0), List(<<200, 300>>)),
      F0Row("A", Bad, List(<<300, 200>>)),
      F0Row("A", Int_(1), BadList),
      F0Row("B", Int_(1), List(<<300, 200>>)) }

\* duration score: ratios on both sides of 1.2, one- to three-syllable words
DurationRows ==
    { DurRow("A", Int_(1), List(<<120, 100>>)),
      DurRow("A", Int_(1), List(<<119, 100>>)),
      DurRow("A", Int_(2), List(<<100, 130, 110>>)),
      DurRow("A", Int_(1), List(<<150>>)),
      DurRow("A", Int_(0), List(<<100, 150>>)),
      DurRow("A", Int_(1), BadList),
      DurRow("B", Int_(1), List(<<150, 100>>)) }

\* stress accuracy: rows in the order of this catalogue
AccuracyRows ==
    << AccRow("A", Int_(1)), AccRow("A", Int_(0)), AccRow("A", Bad),
       AccRow("B", Int_(0)) >>

-----------------------------------------------------------------------------
(* Operations *)

Init ==
    /\ stress_data = <<>>
    /\ pause_data = <<>>
    /\ pc = "load"
    /\ results = <<>>
    /\ call = <<>>
    /\ cmu_dictionary = <<>>
    /\ grid = <<>>
    /\ gabarits = <<>>
    /\ stressTable = <<>>
    /\ spk2deciles = <<>>
    /\ step = "input"

\* load_data, lines 22-26: one more row of stressTable.csv
LoadStressRow(Rows, max) ==
    /\ pc = "load"
    /\ Len(stress_data) < max
    /\ \E row \in Rows : stress_data' = Append(stress_data, row)
    /\ UNCHANGED <<pause_data, pc, results, call>>
    /\ UNCHANGED script_vars

\* load_data, lines 22-26, for a table whose rows come in catalogue order
LoadStressRowInOrder(Catalogue, max) ==
    /\ pc = "load"
    /\ Len(stress_data) < max
    /\ \E k \in 1..Len(Catalogue) :
          /\ \A j \in 1..Len(Catalogue) :
                (stress_data # <<>> /\ Catalogue[j] = stress_data[Len(stress_data)])
                    => j <= k
          /\ stress_data' = Append(stress_data, Catalogue[k])
    /\ UNCHANGED <<pause_data, pc, results, call>>
    /\ UNCHANGED script_vars

\* load_data, lines 29-33: one more row of pauseTable.csv
LoadPauseRow(Rows, max) ==
    /\ pc = "load"
    /\ Len(pause_data) < max
    /\ \E row \in Rows : pause_data' = Append(pause_data, row)
    /\ UNCHANGED <<stress_data, pc, results, call>>
    /\ UNCHANGED script_vars

\* evaluate_all_speakers: one record per speaker id in sorted order, or the
\* first uncaught exception of an evaluate_speaker call ends the call
EvaluateAllSpeakers ==
    /\ pc = "load"
    /\ LET speaker_ids == get_speaker_ids
       IN  IF \E i \in 1..Len(speaker_ids) : evaluate_speaker_raises(speaker_ids[i])
           THEN /\ pc' = "raised"
                /\ results' = <<>>
           ELSE /\ pc' = "done"
                /\ results' = [i \in 1..Len(speaker_ids) |->
                                  evaluate_speaker(speaker_ids[i])]
    /\ UNCHANGED <<stress_data, pause_data, call>>
    /\ UNCHANGED script_vars

\* a direct call of evaluate_speaker: the returned record, or nothing when
\* the call raises
EvaluateSpeaker(speaker_id) ==
    /\ pc = "load"
    /\ Len(call) < 2
    /\ call' = Append(call,
                  [arg |-> speaker_id,
                   ret |-> IF evaluate_speaker_raises(speaker_id) THEN <<>>
                           ELSE <<evaluate_speaker(speaker_id)>>])
    /\ UNCHANGED <<stress_data, pause_data, pc, results>>
    /\ UNCHANGED script_vars

InsertAt(seq, p, x) == SubSeq(seq, 1, p - 1) \o <<x>> \o SubSeq(seq, p, Len(seq))

RemoveAt(seq, p) == SubSeq(seq, 1, p - 1) \o SubSeq(seq, p + 1, Len(seq))

\* load_data on the tables of another session, after a first call of
\* evaluate_speaker: a table has one more row, or one row less, of a speaker
\* other than speaker_id
LoadOtherSession(speaker_id, StressCatalogue, maxStress, PauseCatalogue, maxPause) ==
    /\ pc = "load"
    /\ Len(call) = 1
    /\ \/ /\ Len(stress_data) < maxStress
          /\ \E row \in StressCatalogue, p \in 1..(Len(stress_data) + 1) :
                /\ row.spk # speaker_id
                /\ stress_data' = InsertAt(stress_data, p, row)
          /\ UNCHANGED pause_data
       \/ /\ \E p \in 1..Len(stress_data) :
                /\ stress_data[p].spk # speaker_id
                /\ stress_data' = RemoveAt(stress_data, p)
          /\ UNCHANGED pause_data
       \/ /\ Len(pause_data) < maxPause
          /\ \E row \in PauseCatalogue, p \in 1..(Len(pause_data) + 1) :
                /\ row.spk # speaker_id
                /\ pause_data' = InsertAt(pause_data, p, row)
          /\ UNCHANGED stress_data
       \/ /\ \E p \in 1..Len(pause_data) :
                /\ pause_data[p].spk # speaker_id
                /\ pause_data' = RemoveAt(pause_data, p)
          /\ UNCHANGED stress_data
    /\ UNCHANGED <<pc, results, call>>
    /\ UNCHANGED script_vars

\* a direct call of convert_pronunciation_score_to_bracket
ConvertPronunciationScore ==
    /\ call = <<>>
    /\ \E raw_score \in 0..MaxRescaled :
          call' = <<[arg |-> raw_score,
                     ret |-> convert_pronunciation_score_to_bracket(raw_score)]>>
    /\ UNCHANGED <<stress_data, pause_data, pc, results>>
    /\ UNCHANGED script_vars

-----------------------------------------------------------------------------
(* The stress dictionary.  Text is a sequence of one-character strings.   *)

\* str.lower on one character
lower_char(c) ==
    CASE c = "A" -> "a"
      [] c = "B" -> "b"
      [] c = "C" -> "c"
      [] c = "D" -> "d"
      [] c = "E" -> "e"
      [] c = "F" -> "f"
      [] c = "G" -> "g"
      [] c = "H" -> "h"
      [] c = "I" -> "i"
      [] c = "J" -> "j"
      [] c = "K" -> "k"
      [] c = "L" -> "l"
      [] c = "M" -> "m"
      [] c = "N" -> "n"
      [] c = "O" -> "o"
      [] c = "P" -> "p"
      [] c = "Q" -> "q"
      [] c = "R" -> "r"
      [] c = "S" -> "s"
      [] c = "T" -> "t"
      [] c = "U" -> "u"
      [] c = "V" -> "v"
      [] c = "W" -> "w"
      [] c = "X" -> "x"
      [] c = "Y" -> "y"
      [] c = "Z" -> "z"
      [] OTHER -> c

\* str.lower
lower(text) == [i \in 1..Len(text) |-> lower_char(text[i])]

RECURSIVE lstrip(_)
lstrip(text) ==
    IF text # <<>> /\ Head(text) = " " THEN lstrip(Tail(text)) ELSE text

RECURSIVE rstrip(_)
rstrip(text) ==
    IF text # <<>> /\ text[Len(text)] = " "
    THEN rstrip(SubSeq(text, 1, Len(text) - 1))
    ELSE text

\* str.strip
strip(text) == rstrip(lstrip(text))

\* line.startswith(";;;")
is_comment(line) ==
    Len(line) >= 3 /\ line[1] = ";" /\ line[2] = ";" /\ line[3] = ";"

RECURSIVE split_double_space(_)
\* str.split('  '): the fields between the non-overlapping double spaces,
\* found from left to right
split_double_space(text) ==
    LET hits == {i \in 1..(Len(text) - 1) : text[i] = " " /\ text[i + 1] = " "}
    IN  IF hits = {} THEN <<text>>
        ELSE LET i == CHOOSE h \in hits : \A g \in hits : h <= g
             IN  <<SubSeq(text, 1, i - 1)>>
                     \o split_double_space(SubSeq(text, i + 2, Len(text)))

Digits == {"0", "1", "2", "3", "4", "5", "6", "7", "8", "9"}

\* variant: the "(n)" of a variant entry stays in the word
remove_variant_suffix_kept(w) == w

RECURSIVE remove_variant_suffix(_)
\* re.sub(r'\(\d\)', '', w): every "(", digit, ")" is removed
remove_variant_suffix(w) ==
    IF Len(w) < 3 THEN w
    ELSE IF w[1] = "(" /\ w[2] \in Digits /\ w[3] = ")"
         THEN remove_variant_suffix(SubSeq(w, 4, Len(w)))
         ELSE <<w[1]>> \o remove_variant_suffix(Tail(w))

\* re.sub(r'[^012]', '', t): the stress digits in phoneme order
stress_digits(t) == SelectSeq(t, LAMBDA c : c \in {"0", "1", "2"})

\* a dictionary is a sequence of entries [w, gabs] in insertion order
has_word(dict, w) == \E k \in 1..Len(dict) : dict[k].w = w

patterns_of(dict, w) ==
    LET k == CHOOSE j \in 1..Len(dict) : dict[j].w = w
    IN  dict[k].gabs

\* lines 58-61 (44-47 of the dictionary maker): a new word gets a new list,
\* a pattern is appended unless the same digit string is in the list
add_pattern(dict, w, gab) ==
    IF ~has_word(dict, w) THEN Append(dict, [w |-> w, gabs |-> <<gab>>])
    ELSE [k \in 1..Len(dict) |->
             IF dict[k].w = w /\ \A j \in 1..Len(dict[k].gabs) : dict[k].gabs[j] # gab
             THEN [dict[k] EXCEPT !.gabs = Append(@, gab)]
             ELSE dict[k]]

\* stress script, lines 49-61: one line of the dictionary file
gabarits_line(dict, line) ==
    LET l == split_double_space(strip(line))
        w == remove_variant_suffix(lower(l[1]))
        gab == stress_digits(l[2])
    IN  IF is_comment(line) THEN dict
        ELSE IF Len(l) # 2 THEN dict
        ELSE IF Len(gab) >= 1 THEN add_pattern(dict, w, gab)
        ELSE dict

RECURSIVE make_gabarits(_)
\* stress script, lines 46-61
make_gabarits(lines) ==
    IF lines = <<>> THEN <<>>
    ELSE gabarits_line(make_gabarits(SubSeq(lines, 1, Len(lines) - 1)),
                       lines[Len(lines)])

\* dictionary maker, lines 32-47: one line of the dictionary file
stress_dict_line(dict, line) ==
    LET parts == split_double_space(strip(line))
        word == remove_variant_suffix(lower(parts[1]))
        stress_pattern == stress_digits(parts[2])
    IN  IF is_comment(line) THEN dict
        ELSE IF Len(parts) = 2 THEN add_pattern(dict, word, stress_pattern)
        ELSE dict

RECURSIVE makeStressDictionaryCMU(_)
makeStressDictionaryCMU(dictionary) ==
    IF dictionary = <<>> THEN <<>>
    ELSE stress_dict_line(
             makeStressDictionaryCMU(SubSeq(dictionary, 1, Len(dictionary) - 1)),
             dictionary[Len(dictionary)])

\* stressCode, lines 32-36
stressCode(digit) == IF digit = "1" THEN "O" ELSE "o"

\* the lines of the dictionary file
Line_camera == <<"C", "A", "M", "E", "R", "A", " ", " ", "K", " ", "A", "E", "1", " ", "M", " ", "E", "R", "0", " ", "A", "H", "0">>
Line_camera1 == <<"C", "A", "M", "E", "R", "A", "(", "1", ")", " ", " ", "K", " ", "A", "E", "1", " ", "M", " ", "R", " ", "A", "H", "0">>
Line_comment == <<";", ";", ";", " ", "C", "M", "U", " ", " ", "1">>
Line_record == <<"R", "E", "C", "O", "R", "D", " ", " ", "R", " ", "E", "H", "1", " ", "K", " ", "E", "R", "0", " ", "D">>
Line_record1 == <<"R", "E", "C", "O", "R", "D", "(", "1", ")", " ", " ", "R", " ", "I", "H", "0", " ", "K", " ", "A", "O", "1", " ", "R", " ", "D">>
Line_record2 == <<"R", "E", "C", "O", "R", "D", "(", "2", ")", " ", " ", "R", " ", "E", "H", "1", " ", "K", " ", "A", "O", "2", " ", "R", " ", "D">>
Line_a == <<"A", " ", " ", "A", "H", "0">>
Line_a1 == <<"A", "(", "1", ")", " ", " ", "E", "Y", "1">>
Line_am == <<"A", "M", " ", " ", "A", "E", "0", " ", "M">>
Line_go == <<"G", "O", " ", " ", "G", " ", "O", "W", "1">>
Line_padded == <<" ", "G", "O", " ", " ", "G", " ", "O", "W", "1", " ">>
Line_one_field == <<"G", "O", " ", "G", " ", "O", "W", "1">>
Line_three_fields == <<"G", "O", " ", " ", "G", " ", " ", "O", "W", "1">>
Line_no_vowel == <<"H", "M", " ", " ", "H", "H", " ", "M">>

-----------------------------------------------------------------------------
(* Stress script, pass 1: the target words and their expected shape.       *)
(* A word interval of the input is a record [spk, lab, pos, vowels, deb,   *)
(* fin]: vowels is the sequence of the measures [F0, dB, dur] of the       *)
(* word's vowel intervals (mean pitch in Hz, peak intensity in dB,         *)
(* duration in ms).  The random identifier of a row is modelled by the     *)
(* position of the word in the input, so identifiers are distinct.         *)

plainCategories == {"NOUN", "VERB", "ADV", "ADJ"}

\* lines 80-89: the number of the first stressed syllable, 0 without one
getStressPosition(shapeString) ==
    LET hits == {i \in 1..Len(shapeString) : shapeString[i] = stressCode("1")}
    IN  IF hits = {} THEN 0
        ELSE CHOOSE h \in hits : \A g \in hits : h <= g

RECURSIVE join_slash(_)
\* "/".join(gabs)
join_slash(gabs) ==
    IF gabs = <<>> THEN <<>>
    ELSE IF Len(gabs) = 1 THEN gabs[1]
    ELSE gabs[1] \o <<"/">> \o join_slash(Tail(gabs))

\* lines 199-204: the candidate shapes of a word of the dictionary
candidate_shapes(dict, w) ==
    LET digits == patterns_of(dict, w)
    IN  [k \in 1..Len(digits) |->
            [i \in 1..Len(digits[k]) |-> stressCode(digits[k][i])]]

\* Mutant of is_target: every word of the dictionary is a target
is_target_any(dict, w, nbSyll) == has_word(dict, w)

\* lines 163-167: some pattern of the word has nbSyll syllables
is_target(dict, w, nbSyll) ==
    /\ has_word(dict, w)
    /\ \E k \in 1..Len(patterns_of(dict, w)) : Len(patterns_of(dict, w)[k]) = nbSyll

\* lines 206-221: the shape selected among the candidates
select_shape(gabs, pos, nbSyll) ==
    LET fits == {k \in 1..Len(gabs) : Len(gabs[k]) = nbSyll}
    IN  IF Len(gabs) > 1
        THEN IF gabs = << <<"O", "o">>, <<"o", "O">> >>
                    \/ gabs = << <<"o", "O">>, <<"O", "o">> >>
             THEN IF pos \in {"NOUN", "ADJ"} THEN <<"O", "o">>
                  ELSE IF pos = "VERB" THEN <<"o", "O">>
                  ELSE join_slash(gabs)
             ELSE IF fits = {} THEN <<>>
                  ELSE gabs[CHOOSE k \in fits : \A j \in fits : j <= k]
        ELSE join_slash(gabs)

\* lines 224-229: the expected shape, with the monosyllabic edit
expected_shape(gabs, pos, nbSyll) ==
    LET myGab == select_shape(gabs, pos, nbSyll)
    IN  IF Len(myGab) = 1 /\ pos \notin plainCategories THEN <<"o">> ELSE myGab

\* lines 295-323: the row of a target word
stress_row(dict, word, id) ==
    LET gabs == candidate_shapes(dict, lower(word.lab))
        expectedShape == expected_shape(gabs, word.pos, Len(word.vowels))
    IN  [id |-> id, spk |-> word.spk, lab |-> word.lab, pos |-> word.pos,
         lenSyllxpos |-> Len(word.vowels),
         expectedShapes |-> join_slash(gabs),
         expectedShape |-> expectedShape,
         mergedShape |-> <<>>, deciles |-> <<>>,
         F0shape |-> <<>>, dBshape |-> <<>>, durshape |-> <<>>,
         syllF0 |-> [i \in 1..Len(word.vowels) |-> word.vowels[i].F0],
         F0deciles |-> <<>>,
         sylldB |-> [i \in 1..Len(word.vowels) |-> word.vowels[i].dB],
         dBdeciles |-> <<>>,
         sylldur |-> [i \in 1..Len(word.vowels) |-> word.vowels[i].dur],
         durdeciles |-> <<>>,
         deb |-> word.deb, fin |-> word.fin,
         expectedStressPosition |-> getStressPosition(expectedShape),
         observedStressPosition |-> 0]

RECURSIVE pass1(_, _, _)
\* lines 135-323: the rows of the words k..Len(words) that are targets
pass1(dict, words, k) ==
    IF k > Len(words) THEN <<>>
    ELSE (IF is_target(dict, lower(words[k].lab), Len(words[k].vowels))
          THEN <<stress_row(dict, words[k], k)>>
          ELSE <<>>) \o pass1(dict, words, k + 1)

-----------------------------------------------------------------------------
(* Stress script, the percentile scales.  statistics.quantiles(data,       *)
(* n=100) divides by 100: a boundary of a scale is kept as 100 times its   *)
(* value, an integer for integer measures, and a measure x is below the    *)
(* boundary iff 100 * x is below the kept number.                          *)

\* the value parselmouth gives for Praat's undefined: the pitch of a
\* recording without a voiced frame (lines 251-252); the defined measures
\* are positive
nan == -1

RECURSIVE remove_first(_, _)
remove_first(seq, x) ==
    IF seq = <<>> THEN <<>>
    ELSE IF Head(seq) = x THEN Tail(seq)
    ELSE <<Head(seq)>> \o remove_first(Tail(seq), x)

RECURSIVE sorted(_)
sorted(seq) ==
    IF seq = <<>> THEN <<>>
    ELSE LET m == CHOOSE x \in {seq[i] : i \in 1..Len(seq)} :
                      \A i \in 1..Len(seq) : x <= seq[i]
         IN  <<m>> \o sorted(remove_first(seq, m))

\* statistics.quantiles, method 'exclusive', n = 100: the cut point i of
\* the sorted data (at least two values), times 100
quantile(data, i) ==
    LET ld == Len(data)
        m == ld + 1
        j0 == (i * m) \div 100
        j == IF j0 < 1 THEN 1 ELSE IF j0 > ld - 1 THEN ld - 1 ELSE j0
        delta == i * m - j * 100
    IN  data[j] * (100 - delta) + data[j + 1] * delta

\* lines 396-397: [min] + quantiles + [max]
percentile_scale(values) ==
    LET data == sorted(values)
    IN  <<100 * data[1]>> \o [i \in 1..99 |-> quantile(data, i)]
            \o <<100 * data[Len(data)]>>

\* lines 396-397 where statistics.quantiles accepts a single value
\* (Python 3.13 and later): the 99 cut points are that value
percentile_scale_single(values) == [i \in 1..101 |-> 100 * values[1]]

\* lines 384-390: the values of one dimension of one speaker
RECURSIVE spk2vals(_, _, _)
spk2vals(table, spk, dim) ==
    IF table = <<>> THEN <<>>
    ELSE (IF Head(table).spk = spk THEN Head(table)[dim] ELSE <<>>)
             \o spk2vals(Tail(table), spk, dim)

table_speakers(table) == {table[k].spk : k \in 1..Len(table)}

\* statistics.quantiles raises StatisticsError below two values before
\* Python 3.13
too_few_values(table) ==
    \E spk \in table_speakers(table) : Len(spk2vals(table, spk, "syllF0")) < 2

\* min, max, sorted and the interpolation of statistics.quantiles on
\* undefined values give undefined boundaries
percentile_scale_undefined == [i \in 1..101 |-> nan]

\* the values of a speaker and dimension are all defined or all undefined
build_scale(values) ==
    IF \A i \in 1..Len(values) : values[i] = nan THEN percentile_scale_undefined
    ELSE IF Len(values) < 2 THEN percentile_scale_single(values)
    ELSE percentile_scale(values)

\* lines 392-397
make_deciles(table) ==
    [spk \in table_speakers(table) |->
        [decsF0 |-> build_scale(spk2vals(table, spk, "syllF0")),
         decsdB |-> build_scale(spk2vals(table, spk, "sylldB")),
         decsdur |-> build_scale(spk2vals(table, spk, "sylldur"))]]

\* the None a function returns without a return statement (line 405-412);
\* the ranks are at least -1
None == -2

\* val < boundary and val == boundary, false when one of them is undefined
less_than(val, boundary) == val # nan /\ boundary # nan /\ 100 * val < boundary

equal_to(val, boundary) == val # nan /\ boundary # nan /\ 100 * val = boundary

\* lines 405-412: the first boundary above val gives its index minus 1;
\* the value equal to the last boundary gives 99; otherwise None
getDecileNb(val, listDecs) ==
    LET above == {d \in 0..(Len(listDecs) - 1) : less_than(val, listDecs[d + 1])}
    IN  IF above # {} THEN (CHOOSE d \in above : \A e \in above : d <= e) - 1
        ELSE IF Len(listDecs) > 100 /\ equal_to(val, listDecs[101]) THEN 99
        ELSE None

-----------------------------------------------------------------------------
(* Stress script, pass 2: the observed shapes.  The merged rank           *)
(* round(mean([x, y, z]), 1) is kept in tenths.                            *)

functionWordDecileThreshold == 50

\* Mutant of merged_rank: the mean cut to an integer
merged_rank_integer(x, y, z) == 10 * ((x + y + z) \div 3)

\* round(statistics.mean([x, y, z]), 1) * 10: a third is never half way
\* between two tenths
merged_rank(x, y, z) == (20 * (x + y + z) + 3) \div 6

max_of(ranks) ==
    CHOOSE m \in {ranks[i] : i \in 1..Len(ranks)} :
        \A i \in 1..Len(ranks) : ranks[i] <= m

\* lines 451-470 for one list of ranks; threshold in the unit of the ranks
observed_shape(ranks, threshold) ==
    [i \in 1..Len(ranks) |->
        IF Len(ranks) > 1
        THEN (IF ranks[i] = max_of(ranks) THEN stressCode("1") ELSE stressCode("0"))
        ELSE (IF ranks[i] >= threshold THEN stressCode("1") ELSE stressCode("0"))]

\* lines 442 and 451-470: the merged ranks of a word and its merged shape,
\* from the ranks <<F0, dB, dur>> of its syllables
merged_shape(ranks) ==
    LET decAll == [i \in 1..Len(ranks) |->
                      merged_rank(ranks[i][1], ranks[i][2], ranks[i][3])]
    IN  [deciles |-> decAll,
         mergedShape |-> observed_shape(decAll, 10 * functionWordDecileThreshold)]

\* lines 437-473: the row of a word after pass 2
pass2_row(w, deciles) ==
    LET decF0 == [i \in 1..Len(w.syllF0) |-> getDecileNb(w.syllF0[i], deciles[w.spk].decsF0)]
        decdB == [i \in 1..Len(w.sylldB) |-> getDecileNb(w.sylldB[i], deciles[w.spk].decsdB)]
        decdur == [i \in 1..Len(w.sylldur) |-> getDecileNb(w.sylldur[i], deciles[w.spk].decsdur)]
        \* lines 442-445: statistics.mean raises TypeError on None
        decAll == IF \E i \in 1..Len(decF0) : None \in {decF0[i], decdB[i], decdur[i]}
                  THEN <<>>
                  ELSE [i \in 1..Len(decF0) |-> merged_rank(decF0[i], decdB[i], decdur[i])]
        \* line 451: zip stops at the shortest list
        shape(ranks, threshold) ==
            IF decAll = <<>> THEN <<>> ELSE observed_shape(ranks, threshold)
        Allshape == shape(decAll, 10 * functionWordDecileThreshold)
    IN  [w EXCEPT !.F0deciles = decF0, !.dBdeciles = decdB,
                  !.durdeciles = decdur, !.deciles = decAll,
                  !.mergedShape = Allshape,
                  !.F0shape = shape(decF0, functionWordDecileThreshold),
                  !.dBshape = shape(decdB, functionWordDecileThreshold),
                  !.durshape = shape(decdur, functionWordDecileThreshold),
                  !.observedStressPosition = getStressPosition(Allshape)]

\* lines 539-551: deciles.pop and deciles[0] raise IndexError on the empty
\* list of merged ranks
export_raises(table) == \E k \in 1..Len(table) : table[k].deciles = <<>>

\* line 608: the expectedIsObserved column
expectedIsObserved(stress) ==
    IF stress.expectedShape = stress.mergedShape THEN 1 ELSE 0

\* lines 598-634 read back by csv.DictReader: the columns the evaluator uses
exported_row(stress) ==
    StressRow(stress.spk, Dec(stress.deb), Dec(stress.fin),
              Int_(stress.lenSyllxpos), Int_(stress.expectedStressPosition),
              List(stress.syllF0), List(stress.sylldur),
              Int_(expectedIsObserved(stress)))

-----------------------------------------------------------------------------
(* The pause type tagger (extra_pauseTypeTagger.py).  An interval of the   *)
(* WOR tier is a record [lab, dur, inTable, left, right]: its label, its   *)
(* length in ms, whether pauseTable.csv holds a row with its start time,   *)
(* and the wordLeftEndingLarger and wordRightStartingLarger columns of     *)
(* that row.                                                               *)

clauseLevel == {"S", "SBAR", "SBARQ", "SINV", "SQ"}

phraseLevel == {"ADJP", "ADVP", "CONJP", "FRAG", "INTJ", "LST", "NAC", "NP", "NX", "PP", "PRN", "PRT", "QP", "RRC", "UCP", "VP", "WHADJP", "WHAVP", "WHNP", "WHPP", "X"}

\* threshold, lines 23-26, in ms
threshold_min == 180

threshold_max == 2000

\* lines 65-72
getPauseType(left, right) ==
    IF left \in clauseLevel \/ right \in clauseLevel THEN "BC"
    ELSE IF left \in phraseLevel \/ right \in phraseLevel THEN "BP"
    ELSE "WP"

\* line 99: the interval is tagged
is_tagged(intervalle) ==
    /\ intervalle.lab \in {"<p:>", ""}
    /\ intervalle.dur >= threshold_min
    /\ intervalle.dur < threshold_max

\* lines 99-117: the text of the pauseType interval made for an interval of
\* the WOR tier, "none" when none is made, "raised" when no row of the pause
\* table has the start time (p = [] and p[...] raises IndexError)
pause_type_of(intervalle) ==
    IF ~is_tagged(intervalle) THEN "none"
    ELSE IF ~intervalle.inTable THEN "raised"
    ELSE getPauseType(intervalle.left, intervalle.right)

-----------------------------------------------------------------------------
(* pausesAnalysis.py: the alignment of the pauses with the parse tree       *)

\* lines 86-93: the entry of a word of the parse tree, with the numbers of
\* constituents that open before it and close after it
Entry(word, opening, closing, tag, depth) ==
    [word |-> word, opening |-> opening, closing |-> closing, tag |-> tag,
     depth |-> depth]

\* lines 129-132: the entry appended for the end of the tier
end_entry == Entry(<<"e", "n", "d">>, 0, 0, "end", 0)

Label_start == <<"s", "t", "a", "r", "t">>

Label_end == <<"e", "n", "d">>

\* str.endswith
ends_with(s, suffix) ==
    Len(s) >= Len(suffix) /\ SubSeq(s, Len(s) - Len(suffix) + 1, Len(s)) = suffix

RECURSIVE concat(_)
concat(seqs) == IF seqs = <<>> THEN <<>> ELSE Head(seqs) \o concat(Tail(seqs))

\* lines 59-104: the words of the parse tree of the transcript, in order
wordlist_of(tier) == concat([i \in 1..Len(tier) |-> tier[i].parse])

RECURSIVE pop_until(_, _)
\* lines 136-137: pop the front of the list until wordLeft ends with it
pop_until(wordlist, wordLeft) ==
    IF wordLeft # Label_start /\ Len(wordlist) > 0
          /\ ~ends_with(wordLeft, wordlist[1].word)
    THEN pop_until(Tail(wordlist), wordLeft)
    ELSE wordlist

is_pause(intWor) == intWor.lab = <<>>

\* lines 116-161: the row of the pause at interval i (counted from 1), with
\* the list left by the while loop
pause_row(tier, i, wordlist) ==
    [spk |-> "A", duration |-> Dec(600), i |-> i,
     wordLeft |-> IF i > 1 THEN tier[i - 1].lab ELSE Label_start,
     wordRight |-> IF i < Len(tier) THEN tier[i + 1].lab ELSE Label_end,
     boundaryStrength |-> IF Len(wordlist) > 1
                          THEN wordlist[1].closing + wordlist[2].opening
                          ELSE 0,
     wordLeftDepth |-> wordlist[1].depth,
     wordLeftTagw |-> wordlist[1].tag,
     wordRightDepth |-> IF Len(wordlist) > 1 THEN wordlist[2].depth ELSE 0,
     wordRightTagw |-> IF Len(wordlist) > 1 THEN wordlist[2].tag ELSE ""]

RECURSIVE pauses_loop(_, _, _)
\* lines 113-161: the rows of the pauses at the intervals i..Len(tier)
pauses_loop(tier, i, wordlist) ==
    IF i > Len(tier) THEN <<>>
    ELSE IF ~is_pause(tier[i]) THEN pauses_loop(tier, i + 1, wordlist)
    ELSE LET wordLeft == IF i > 1 THEN tier[i - 1].lab ELSE Label_start
             wordRight == IF i < Len(tier) THEN tier[i + 1].lab ELSE Label_end
             appended == IF wordRight = Label_end \/ wordRight = <<>>
                         THEN Append(wordlist, end_entry)
                         ELSE wordlist
             popped == pop_until(appended, wordLeft)
         IN  IF Len(popped) = 0
                 \/ (~ends_with(wordLeft, popped[1].word) /\ wordLeft # Label_start)
             THEN pauses_loop(tier, i + 1, popped)
             ELSE <<pause_row(tier, i, popped)>> \o pauses_loop(tier, i + 1, popped)

-----------------------------------------------------------------------------
(* Inputs of the scripts *)

TextGridSuffix == <<".", "T", "e", "x", "t", "G", "r", "i", "d">>

starts_with(s, prefix) ==
    Len(s) >= Len(prefix) /\ SubSeq(s, 1, Len(prefix)) = prefix

drop(s, n) == SubSeq(s, n + 1, Len(s))

RECURSIVE digit_run(_)
\* the length of the longest prefix of s made of decimal digits
digit_run(s) ==
    IF s # <<>> /\ Head(s) \in {"0", "1", "2", "3", "4", "5", "6", "7", "8", "9"}
    THEN 1 + digit_run(Tail(s))
    ELSE 0

\* the length of the match of (_\d+)?\.TextGrid at the start of s, 0 without
\* a match
suffix_match(s) ==
    IF /\ s # <<>>
       /\ Head(s) = "_"
       /\ digit_run(Tail(s)) >= 1
       /\ starts_with(drop(s, 1 + digit_run(Tail(s))), TextGridSuffix)
    THEN 1 + digit_run(Tail(s)) + Len(TextGridSuffix)
    ELSE IF starts_with(s, TextGridSuffix) THEN Len(TextGridSuffix)
    ELSE 0

RECURSIVE stress_spk(_)
\* stress script, line 113: re.sub(r"(_\d+)?\.TextGrid", "", file)
stress_spk(file) ==
    IF file = <<>> THEN <<>>
    ELSE IF suffix_match(file) > 0 THEN stress_spk(drop(file, suffix_match(file)))
    ELSE <<Head(file)>> \o stress_spk(Tail(file))

RECURSIVE pause_spk(_)
\* pausesAnalysis.py, lines 45-46: file.replace('.TextGrid', '')
pause_spk(file) ==
    IF file = <<>> THEN <<>>
    ELSE IF starts_with(file, TextGridSuffix)
    THEN pause_spk(drop(file, Len(TextGridSuffix)))
    ELSE <<Head(file)>> \o pause_spk(Tail(file))

\* the string a sequence of characters spells (the speaker ids of the model)
Text(chars) ==
    CASE chars = <<>> -> ""
      [] chars = <<"A">> -> "A"
      [] chars = <<"B">> -> "B"
      [] chars = <<"2">> -> "2"
      [] chars = <<"2", "_", "9">> -> "2_9"
      [] chars = <<"B", "_", "1">> -> "B_1"

Word(spk, lab, pos, vowels) ==
    [spk |-> spk, lab |-> lab, pos |-> pos, vowels |-> vowels,
     deb |-> 1000, fin |-> 1500]

Vowel(F0, dB, dur) == [F0 |-> F0, dB |-> dB, dur |-> dur]

Lab_record == <<"r", "e", "c", "o", "r", "d">>
Lab_Record == <<"R", "e", "c", "o", "r", "d">>
Lab_camera == <<"c", "a", "m", "e", "r", "a">>
Lab_a == <<"a">>
Lab_am == <<"a", "m">>
Lab_go == <<"g", "o">>

V_high == Vowel(220, 65, 150)
V_mid == Vowel(210, 62, 120)
V_low == Vowel(200, 60, 100)
V_loud == Vowel(200, 65, 150)
V_shrill == Vowel(220, 60, 100)
V_unvoiced_loud == Vowel(nan, 65, 150)
V_unvoiced_soft == Vowel(nan, 60, 100)

MaxLines == 3
MaxExpectedLines == 3
MaxExpectedWords == 1
MaxShapeLines == 3
MaxShapeWords == 2
MaxMonotonePauses == 6
MaxIndependentRows == 2
MaxRangeRows == 2
MaxTokens == 2
MaxFiles == 3
MaxIntervals == 4
MaxMergedSyllables == 2
MaxRangePauses == 1
MaxIndependentPauses == 1
MaxIndependentWords == 2

LexiconLines ==
    {Line_camera, Line_camera1, Line_comment, Line_record, Line_record1,
     Line_record2, Line_a, Line_a1, Line_am, Line_go, Line_padded,
     Line_one_field, Line_three_fields, Line_no_vowel}

ExpectedLines ==
    {Line_camera, Line_camera1, Line_record, Line_record1, Line_record2,
     Line_a, Line_a1, Line_am}

ExpectedWords ==
    {Word("A", Lab_record, pos, <<V_high, V_low>>) :
         pos \in {"NOUN", "ADJ", "VERB", "ADV", "PROPN"}}
    \cup {Word("A", Lab_Record, "VERB", <<V_low, V_high>>)}
    \cup {Word("A", Lab_a, pos, <<V_mid>>) : pos \in {"NOUN", "DET"}}
    \cup {Word("A", Lab_am, pos, <<V_mid>>) : pos \in {"VERB", "AUX"}}
    \cup {Word("A", Lab_camera, "NOUN", <<V_high, V_low, V_low>>),
          Word("A", Lab_camera, "NOUN", <<V_high, V_low>>)}

ShapeLines == <<Line_record, Line_record1, Line_go>>

ShapeWords ==
    {Word("A", Lab_record, "VERB", <<V_low, V_high>>),
     Word("A", Lab_record, "NOUN", <<V_high, V_low>>),
     Word("A", Lab_record, "ADV", <<V_high, V_low>>),
     Word("A", Lab_record, "NOUN", <<V_mid, V_mid>>),
     Word("A", Lab_record, "NOUN", <<V_shrill, V_loud>>),
     Word("A", Lab_go, "VERB", <<V_high>>),
     Word("A", Lab_go, "DET", <<V_low>>),
     Word("B", Lab_go, "VERB", <<V_mid>>),
     Word("C", Lab_record, "NOUN", <<V_unvoiced_loud, V_unvoiced_soft>>)}

\* a five-syllable word of 0.5 s with the highest contrasts of pitch and
\* duration on its stressed syllable
FullRow(spk) ==
    StressRow(spk, Dec(1000), Dec(1500), Int_(5), Int_(1),
              List(<<220, 200>>), List(<<150, 100>>), Int_(1))

\* rows with the highest and the lowest value of every sub-score
RangeRows ==
    { FullRow("A"), FullRow("B"), PlainRow("A"), PlainRow("B"), LongRow("A"),
      SpeedRow("A", Dec(1000), Dec(2500), Int_(1)),
      F0Row("A", Int_(2), List(<<200, 200>>)),
      F0Row("A", Int_(1), List(<<0, 200>>)),
      DurRow("A", Int_(0), List(<<100, 150>>)),
      AccRow("A", Int_(0)),
      BadStressRow("A") }

RangePauses ==
    { PauseRow("A", Dec(300)), PauseRow("A", Dec(600)), PauseRow("A", Dec(900)),
      PauseRow("A", Dec(2100)), PauseRow("A", Bad), PauseRow("B", Dec(600)) }

\* an interval of the words tier with the entries of its text in the parse
\* tree: none for a pause, two for a contraction
Interval(lab, parse) == [lab |-> lab, parse |-> parse]

PauseIntervals ==
    {Interval(<<>>, <<>>),
     Interval(<<"a">>, <<Entry(<<"a">>, 2, 0, "DT", 2)>>),
     Interval(<<"a">>, <<Entry(<<"a">>, 0, 1, "DT", 3)>>),
     Interval(<<"b", "a">>, <<Entry(<<"b", "a">>, 1, 2, "NN", 4)>>),
     Interval(<<"d", "o", "n", "t">>,
              <<Entry(<<"d", "o">>, 1, 0, "VBP", 1), Entry(<<"n", "t">>, 0, 3, "RB", 5)>>)}

\* the ranks <<F0, dB, dur>> of a syllable: sums next to each other at both
\* ends, around a third of an integer and around the threshold of 150
RankTriples ==
    {<<0, 0, 0>>, <<0, 0, 1>>, <<0, 1, 1>>, <<1, 1, 1>>,
     <<33, 33, 33>>, <<33, 33, 34>>, <<33, 34, 34>>,
     <<49, 49, 50>>, <<49, 50, 50>>, <<50, 50, 50>>, <<50, 50, 51>>,
     <<0, 50, 99>>, <<0, 51, 99>>, <<1, 50, 99>>,
     <<98, 99, 99>>, <<99, 99, 99>>}

\* the TextGrid files of a session, in the order of this catalogue
File_A == <<"A">> \o TextGridSuffix
File_2_9 == <<"2", "_", "9">> \o TextGridSuffix
File_B_1 == <<"B", "_", "1">> \o TextGridSuffix

FileNames == <<File_A, File_2_9, File_B_1>>

\* the words and pauses found in a file
FileWords == {"plain", "full"}

FilePauses == {600, 2100}

\* the identifiers random.choices draws (lines 288-289), 62^7 in the code
Tokens == 1..MaxTokens

\* two sessions that differ in the rows of speaker B only
IndependentRows == {PlainRow("A"), PlainRow("B"), ShortStressRow("B")}

IndependentPauses == {PauseRow("A", Dec(600)), PauseRow("B", Dec(2100))}

IndependentWords ==
    {Word("A", Lab_record, "NOUN", <<V_high, V_low>>),
     Word("B", Lab_record, "VERB", <<V_low, V_high>>),
     Word("B", Lab_go, "VERB", <<V_mid>>)}

Intervals ==
    [lab : {"<p:>", "", "go"},
     dur : {0, 179, 180, 181, 1000, 1999, 2000, 2001},
     inTable : BOOLEAN,
     left : {"S", "SBAR", "NP", "VP", "", "NN"},
     right : {"SQ", "PP", ""}]

MonotonePauses ==
    << PauseRow("A", Dec(500)), PauseRow("A", Dec(700)), PauseRow("A", Dec(900)),
       PauseRow("A", Dec(1400)), PauseRow("A", Dec(1500)), PauseRow("A", Dec(2100)),
       PauseRow("B", Dec(500)), PauseRow("B", Dec(700)), PauseRow("B", Dec(900)),
       PauseRow("B", Dec(1400)), PauseRow("B", Dec(1500)), PauseRow("B", Dec(2100)) >>

-----------------------------------------------------------------------------
(* Operations of the scripts *)

\* one more line of the dictionary file
LoadLine(Lines, max) ==
    /\ step = "input"
    /\ Len(cmu_dictionary) < max
    /\ \E line \in Lines : cmu_dictionary' = Append(cmu_dictionary, line)
    /\ UNCHANGED <<grid, gabarits, stressTable, spk2deciles, step>>
    /\ UNCHANGED evaluator_vars

\* one more line of a dictionary file whose lines come in catalogue order
LoadLineInOrder(Catalogue, max) ==
    /\ step = "input"
    /\ Len(cmu_dictionary) < max
    /\ \E k \in 1..Len(Catalogue) :
          /\ \A j \in 1..Len(Catalogue) :
                (cmu_dictionary # <<>>
                    /\ Catalogue[j] = cmu_dictionary[Len(cmu_dictionary)])
                    => j < k
          /\ cmu_dictionary' = Append(cmu_dictionary, Catalogue[k])
    /\ UNCHANGED <<grid, gabarits, stressTable, spk2deciles, step>>
    /\ UNCHANGED evaluator_vars

\* one more word interval of the input TextGrids
LoadWord(Words, max) ==
    /\ step = "input"
    /\ Len(grid) < max
    /\ \E word \in Words : grid' = Append(grid, word)
    /\ UNCHANGED <<cmu_dictionary, gabarits, stressTable, spk2deciles, step>>
    /\ UNCHANGED evaluator_vars

\* load_data, lines 29-33, for a table whose rows come in catalogue order
LoadPauseRowInOrder(Catalogue, max) ==
    /\ pc = "load"
    /\ Len(pause_data) < max
    /\ \E k \in 1..Len(Catalogue) :
          /\ \A j \in 1..Len(Catalogue) :
                (pause_data # <<>> /\ Catalogue[j] = pause_data[Len(pause_data)])
                    => j <= k
          /\ pause_data' = Append(pause_data, Catalogue[k])
    /\ UNCHANGED <<stress_data, pc, results, call>>
    /\ UNCHANGED script_vars

\* stress script, section 1 (lines 46-61)
MakeGabarits ==
    /\ step = "input"
    /\ gabarits' = make_gabarits(cmu_dictionary)
    /\ step' = "gabarits"
    /\ UNCHANGED <<cmu_dictionary, grid, stressTable, spk2deciles>>
    /\ UNCHANGED evaluator_vars

\* a call of makeStressDictionaryCMU on the dictionary file
MakeStressDictionary ==
    /\ step = "input"
    /\ call = <<>>
    /\ call' = <<[arg |-> cmu_dictionary,
                  ret |-> makeStressDictionaryCMU(cmu_dictionary)]>>
    /\ UNCHANGED <<stress_data, pause_data, pc, results>>
    /\ UNCHANGED script_vars

\* stress script, section 2 (lines 92-369)
AnalyseWords ==
    /\ step = "gabarits"
    /\ stressTable' = pass1(gabarits, grid, 1)
    /\ step' = "pass1"
    /\ UNCHANGED <<cmu_dictionary, grid, gabarits, spk2deciles>>
    /\ UNCHANGED evaluator_vars

\* pausesAnalysis.py on the words tier of one file with the parse tree of
\* its transcript
AnalysePauses ==
    /\ step = "input"
    /\ pause_data' = pauses_loop(grid, 1, wordlist_of(grid))
    /\ step' = "pauses"
    /\ UNCHANGED <<cmu_dictionary, grid, gabarits, stressTable, spk2deciles>>
    /\ UNCHANGED <<stress_data, pc, results, call>>

\* lines 442-470 on the ranks of the syllables of one word
MergeRanks ==
    /\ call = <<>>
    /\ \E n \in 1..MaxMergedSyllables : \E ranks \in [1..n -> RankTriples] :
          call' = <<[arg |-> ranks, ret |-> merged_shape(ranks)]>>
    /\ UNCHANGED <<stress_data, pause_data, pc, results>>
    /\ UNCHANGED script_vars

\* both scripts on one more recording of the session: a row of its target
\* word in stressTable.csv and a row of its pause in pauseTable.csv, each
\* with the speaker id the script derives from the file name
AnalyseRecording ==
    /\ pc = "load"
    /\ Len(pause_data) < MaxFiles
    /\ \E k \in 1..Len(FileNames), word \in FileWords, duration \in FilePauses :
          /\ \A j \in 1..Len(FileNames) :
                (pause_data # <<>>
                    /\ Text(pause_spk(FileNames[j])) = pause_data[Len(pause_data)].spk)
                    => j < k
          /\ stress_data' = Append(stress_data,
                                IF word = "full"
                                THEN FullRow(Text(stress_spk(FileNames[k])))
                                ELSE PlainRow(Text(stress_spk(FileNames[k]))))
          /\ pause_data' = Append(pause_data,
                               PauseRow(Text(pause_spk(FileNames[k])), Dec(duration)))
    /\ UNCHANGED <<pc, results, call>>
    /\ UNCHANGED script_vars

\* stress script, section 2, with the identifier of each row drawn at random
AnalyseWordsWithTokens ==
    /\ step = "gabarits"
    /\ LET rows == pass1(gabarits, grid, 1)
       IN  \E wid \in [1..Len(rows) -> Tokens] :
               stressTable' = [j \in 1..Len(rows) |-> [rows[j] EXCEPT !.id = wid[j]]]
    /\ step' = "pass1"
    /\ UNCHANGED <<cmu_dictionary, grid, gabarits, spk2deciles>>
    /\ UNCHANGED evaluator_vars

\* line 436: the first row of the table with this identifier
row_of_token(table, token) ==
    CHOOSE k \in 1..Len(table) :
        /\ table[k].id = token
        /\ \A j \in 1..(k - 1) : table[j].id # token

\* Mutant of InjectNextShape: the scales are rebuilt from the rows up to the
\* one being ranked
InjectNextShapeStreaming ==
    /\ step = "deciles"
    /\ IF Len(call) < Len(stressTable)
       THEN LET token == stressTable[Len(call) + 1].id
                k == row_of_token(stressTable, token)
                seen == make_deciles(SubSeq(stressTable, 1, k))
                w == pass2_row(stressTable[k], seen)
            IN  /\ stressTable' = [stressTable EXCEPT ![k] = w]
                /\ spk2deciles' = seen
                /\ call' = Append(call, [arg |-> token, ret |-> w.mergedShape])
                /\ step' = step
       ELSE /\ step' = "pass2"
            /\ UNCHANGED <<stressTable, call, spk2deciles>>
    /\ UNCHANGED <<cmu_dictionary, grid, gabarits>>
    /\ UNCHANGED <<stress_data, pause_data, pc, results>>

\* stress script, section 4 (lines 421-476), one interval of the
\* ObservedShape tier at a time: call holds the identifiers read so far and
\* the shapes written in their place
InjectNextShape ==
    /\ step = "deciles"
    /\ IF Len(call) < Len(stressTable)
       THEN LET token == stressTable[Len(call) + 1].id
                k == row_of_token(stressTable, token)
                w == pass2_row(stressTable[k], spk2deciles)
            IN  /\ stressTable' = [stressTable EXCEPT ![k] = w]
                /\ call' = Append(call, [arg |-> token, ret |-> w.mergedShape])
                /\ step' = step
       ELSE /\ step' = "pass2"
            /\ UNCHANGED <<stressTable, call>>
    /\ UNCHANGED <<cmu_dictionary, grid, gabarits, spk2deciles>>
    /\ UNCHANGED <<stress_data, pause_data, pc, results>>

\* stress script, section 3 (lines 381-397); with a speaker of a single
\* value statistics.quantiles raises or not, depending on the Python version
MakeDeciles ==
    /\ step = "pass1"
    /\ \/ /\ too_few_values(stressTable)
          /\ step' = "raised"
          /\ UNCHANGED spk2deciles
       \/ /\ spk2deciles' = make_deciles(stressTable)
          /\ step' = "deciles"
    /\ UNCHANGED <<cmu_dictionary, grid, gabarits, stressTable>>
    /\ UNCHANGED evaluator_vars

\* stress script, section 4 (lines 421-488)
InjectShapes ==
    /\ step = "deciles"
    /\ stressTable' = [k \in 1..Len(stressTable) |->
                          pass2_row(stressTable[k], spk2deciles)]
    /\ step' = "pass2"
    /\ UNCHANGED <<cmu_dictionary, grid, gabarits, spk2deciles>>
    /\ UNCHANGED evaluator_vars

\* stress script, section 5 (lines 497-634), and load_data reading the file
ExportStressTable ==
    /\ step = "pass2"
    /\ IF export_raises(stressTable)
       THEN /\ step' = "raised"
            /\ UNCHANGED stress_data
       ELSE /\ stress_data' = [k \in 1..Len(stressTable) |-> exported_row(stressTable[k])]
            /\ step' = "exported"
    /\ UNCHANGED <<pause_data, pc, results, call>>
    /\ UNCHANGED <<cmu_dictionary, grid, gabarits, stressTable, spk2deciles>>

\* the pause type tagger on one interval of the WOR tier
TagInterval ==
    /\ call = <<>>
    /\ \E intervalle \in Intervals :
          call' = <<[arg |-> intervalle, ret |-> pause_type_of(intervalle)]>>
    /\ UNCHANGED <<stress_data, pause_data, pc, results>>
    /\ UNCHANGED script_vars

-----------------------------------------------------------------------------
(* Specifications *)

Next ==
    \/ LoadStressRow(StressRows, MaxStressRows)
    \/ LoadPauseRow(PauseRows, MaxPauseRows)
    \/ EvaluateAllSpeakers

Spec == Init /\ [][Next]_vars

NextPause ==
    \/ LoadStressRow(SpeakerRows, MaxSpeakerRows)
    \/ LoadPauseRow(PauseDurations, MaxPauses)
    \/ EvaluateAllSpeakers

SpecPause == Init /\ [][NextPause]_vars

NextSpeed ==
    \/ LoadStressRow(SpeedRows, MaxSpeedRows)
    \/ EvaluateAllSpeakers

SpecSpeed == Init /\ [][NextSpeed]_vars

NextF0 ==
    \/ LoadStressRow(F0Rows, MaxF0Rows)
    \/ EvaluateAllSpeakers

SpecF0 == Init /\ [][NextF0]_vars

NextDuration ==
    \/ LoadStressRow(DurationRows, MaxDurationRows)
    \/ EvaluateAllSpeakers

SpecDuration == Init /\ [][NextDuration]_vars

NextAccuracy ==
    \/ LoadStressRowInOrder(AccuracyRows, MaxAccuracyRows)
    \/ EvaluateAllSpeakers

SpecAccuracy == Init /\ [][NextAccuracy]_vars

NextBracket == ConvertPronunciationScore

SpecBracket == Init /\ [][NextBracket]_vars

NextLexicon ==
    \/ LoadLine(LexiconLines, MaxLines)
    \/ MakeStressDictionary
    \/ MakeGabarits

SpecLexicon == Init /\ [][NextLexicon]_vars

NextExpected ==
    \/ LoadLine(ExpectedLines, MaxExpectedLines)
    \/ LoadWord(ExpectedWords, MaxExpectedWords)
    \/ MakeGabarits
    \/ AnalyseWords

SpecExpected == Init /\ [][NextExpected]_vars

NextShape ==
    \/ LoadLineInOrder(ShapeLines, MaxShapeLines)
    \/ LoadWord(ShapeWords, MaxShapeWords)
    \/ MakeGabarits
    \/ AnalyseWords
    \/ MakeDeciles
    \/ InjectShapes
    \/ ExportStressTable

SpecShape == Init /\ [][NextShape]_vars

NextTagger == TagInterval

SpecTagger == Init /\ [][NextTagger]_vars

NextMonotone ==
    \/ LoadPauseRowInOrder(MonotonePauses, MaxMonotonePauses)
    \/ EvaluateAllSpeakers

SpecMonotone == Init /\ [][NextMonotone]_vars

NextPasses ==
    \/ LoadLineInOrder(ShapeLines, MaxShapeLines)
    \/ LoadWord(ShapeWords, MaxShapeWords)
    \/ MakeGabarits
    \/ AnalyseWordsWithTokens
    \/ MakeDeciles
    \/ InjectNextShape
    \/ ExportStressTable

SpecPasses == Init /\ [][NextPasses]_vars

NextSpeakerId ==
    \/ AnalyseRecording
    \/ EvaluateAllSpeakers

SpecSpeakerId == Init /\ [][NextSpeakerId]_vars

NextBoundary ==
    \/ LoadWord(PauseIntervals, MaxIntervals)
    \/ AnalysePauses

SpecBoundary == Init /\ [][NextBoundary]_vars

NextMerged == MergeRanks

SpecMerged == Init /\ [][NextMerged]_vars

NextRange ==
    \/ LoadStressRow(RangeRows, MaxRangeRows)
    \/ LoadPauseRow(RangePauses, MaxRangePauses)
    \/ EvaluateAllSpeakers

SpecRange == Init /\ [][NextRange]_vars

\* load_data on the tables of the first session, before any evaluation
LoadFirstSessionStress ==
    /\ call = <<>>
    /\ LoadStressRow(IndependentRows, MaxIndependentRows)

LoadFirstSessionPause ==
    /\ call = <<>>
    /\ LoadPauseRow(IndependentPauses, MaxIndependentPauses)

NextIndependent ==
    \/ LoadFirstSessionStress
    \/ LoadFirstSessionPause
    \/ EvaluateSpeaker("A")
    \/ LoadOtherSession("A", IndependentRows, MaxIndependentRows, IndependentPauses, MaxIndependentPauses)
    \/ LoadLineInOrder(ShapeLines, MaxShapeLines)
    \/ LoadWord(IndependentWords, MaxIndependentWords)
    \/ MakeGabarits
    \/ AnalyseWords
    \/ MakeDeciles

SpecIndependent == Init /\ [][NextIndependent]_vars

-----------------------------------------------------------------------------
(* Properties.  The definitions named Claim_... restate what the           *)
(* specification text says, independently of the operators above.          *)

Evaluated == pc = "done"

SubScores(r) == <<r.pause_score, r.speed_score, r.f0_score,
                  r.duration_score, r.stress_accuracy_score>>

RECURSIVE SumOver(_, _)
\* the sum of f[x] over the x of the finite set S
SumOver(f, S) ==
    IF S = {} THEN 0
    ELSE LET x == CHOOSE y \in S : TRUE
         IN  f[x] + SumOver(f, S \ {x})

\* the bracket table of the specification, on thousandths
Claim_Bracket(r) ==
    IF r >= 25000 THEN 30
    ELSE IF r >= 20000 THEN 26
    ELSE IF r >= 15000 THEN 21
    ELSE IF r >= 10000 THEN 15
    ELSE IF r >= 5000 THEN 10
    ELSE 0

\* C1: every record evaluate_speaker returns has raw = the sum of its five
\* sub-scores, rescaled = raw x 0.3 and final = bracket(rescaled); the
\* sub-scores [20,15,20,10,10] give raw 75, rescaled 22.5, final 26, "usu".
C1_Composite ==
    \A i \in 1..Len(results) :
        LET r == results[i]
        IN  /\ SubScores(r) = <<calculate_pause_score(r.speaker_id),
                                calculate_speed_score(r.speaker_id),
                                calculate_f0_score(r.speaker_id),
                                calculate_duration_score(r.speaker_id),
                                calculate_stress_accuracy_score(r.speaker_id)>>
            /\ r.pronunciation_raw_score = SumSeq(SubScores(r))
            /\ r.pronunciation_30_score * 10 = r.pronunciation_raw_score * 3 * 1000
            /\ r.pronunciation_final_score = Claim_Bracket(r.pronunciation_30_score)
            /\ r.final_score = r.pronunciation_final_score
            /\ SubScores(r) = <<20, 15, 20, 10, 10>>
                  => /\ r.pronunciation_raw_score = 75
                     /\ r.pronunciation_30_score = 22500
                     /\ r.final_score = 26
                     /\ r.pronunciation_grade = "usu"

C1_Witness ==
    /\ Evaluated
    /\ \E i \in 1..Len(results) : SubScores(results[i]) = <<20, 15, 20, 10, 10>>

\* C2: the bracket of a rescaled score r is 30 if r >= 25, else 26 if r >= 20,
\* else 21 if r >= 15, else 15 if r >= 10, else 10 if r >= 5, else 0; 25.0
\* gives 30, 24.999 gives 26, 20.0 gives 26 and 19.999 gives 21.
C2_Bracket ==
    \A i \in 1..Len(call) :
        LET r == call[i].arg
            b == call[i].ret.score
        IN  /\ r >= 25000 => b = 30
            /\ r < 25000 /\ r >= 20000 => b = 26
            /\ r < 20000 /\ r >= 15000 => b = 21
            /\ r < 15000 /\ r >= 10000 => b = 15
            /\ r < 10000 /\ r >= 5000 => b = 10
            /\ r < 5000 => b = 0
            /\ r = 25000 => b = 30
            /\ r = 24999 => b = 26
            /\ r = 20000 => b = 26
            /\ r = 19999 => b = 21

C2_Witness ==
    \E i \in 1..Len(call) : call[i].arg = 24999 /\ call[i].ret.score = 26

\* the speakers the specification counts: every non-empty spk of either table
Claim_SpeakerIds ==
    {stress_data[i].spk : i \in 1..Len(stress_data)}
        \cup {pause_data[i].spk : i \in 1..Len(pause_data)}

\* C3 (as stated): whatever the tables hold, short lines included, a call of
\* evaluate_all_speakers completes and returns exactly one record per speaker
\* identifier, each with the five sub-scores.
C3_AlwaysCompletes ==
    pc # "load" =>
        /\ Evaluated
        /\ Len(results) = Cardinality(Claim_SpeakerIds \ {""})
        /\ {results[i].speaker_id : i \in 1..Len(results)} = Claim_SpeakerIds \ {""}
        /\ \A i \in 1..Len(results) :
               {"pause_score", "speed_score", "f0_score", "duration_score",
                "stress_accuracy_score"} \subseteq DOMAIN results[i]

\* the pause rows of speaker s whose duration is a number
Claim_PauseIndexes(s) ==
    {i \in 1..Len(pause_data) :
        pause_data[i].spk = s /\ pause_data[i].duration.t \in {"int", "dec"}}

Claim_Durations == [i \in 1..Len(pause_data) |-> pause_data[i].duration.v]

\* the pause score the specification gives to the set P of pause rows
Claim_PauseScore(P) ==
    LET n == Cardinality(P)
        total == SumOver(Claim_Durations, P)
        base == IF total <= 700 * n THEN 20
                ELSE IF total <= 1500 * n THEN 10
                ELSE 5
        long == Cardinality({i \in P : Claim_Durations[i] >= 1500})
    IN  IF P = {} THEN 20
        ELSE IF base - 2 * long < 0 THEN 0
        ELSE base - 2 * long

Claim_Significant(s) == {i \in Claim_PauseIndexes(s) : Claim_Durations[i] >= 500}

\* C4 (as stated): a speaker with no significant pause, whether every pause
\* is below the minimum or the speaker has no pause at all, scores 20.
C4_NoSignificantPause ==
    \A i \in 1..Len(results) :
        Claim_Significant(results[i].speaker_id) = {}
            => results[i].pause_score = 20

\* C5: a speaker with at least one significant pause scores
\* max(0, base - 2n): base is 20 for a mean of at most 0.7 s, 10 for a mean
\* of at most 1.5 s and 5 above, n is the number of pauses of 1.5 s or more.
C5_PauseScore ==
    \A i \in 1..Len(results) :
        LET P == Claim_Significant(results[i].speaker_id)
        IN  P # {} => /\ results[i].pause_score = Claim_PauseScore(P)
                      /\ results[i].pause_score >= 0

C5_Witness ==
    /\ Evaluated
    /\ \E i \in 1..Len(results) :
           LET P == Claim_Significant(results[i].speaker_id)
           IN  /\ Cardinality(P) = 3
               /\ \A j \in P : Claim_Durations[j] >= 2000
               /\ results[i].pause_score = 0

\* the pause rows of speaker s inside the window [0.5 s, 2.0 s)
Claim_InWindow(s) ==
    {i \in Claim_Significant(s) : Claim_Durations[i] < 2000}

\* the speaker has exactly the pauses 0.3 s, 0.6 s and 2.1 s
Claim_Scenario(s) ==
    /\ Cardinality(Claim_PauseIndexes(s)) = 3
    /\ {Claim_Durations[j] : j \in Claim_PauseIndexes(s)} = {300, 600, 2100}
    /\ \A j \in 1..Len(pause_data) :
           pause_data[j].spk = s => j \in Claim_PauseIndexes(s)

Claim_Words(s) == {i \in 1..Len(stress_data) : stress_data[i].spk = s}

\* the syllables <<row, position>> of speaker s that carry a positive pitch
Claim_Voiced(s) ==
    {c \in Claim_Words(s) \X (1..3) :
        LET row == stress_data[c[1]]
        IN  /\ row.expectedStressPosition.t = "int"
            /\ row.syllF0.t = "list"
            /\ c[2] <= Len(row.syllF0.v)
            /\ row.syllF0.v[c[2]] > 0}

Claim_Stressed(s) ==
    {c \in Claim_Voiced(s) : c[2] = stress_data[c[1]].expectedStressPosition.v}

Claim_Pitch(C) == [c \in C |-> stress_data[c[1]].syllF0.v[c[2]]]

\* the pitch score of a stressed pool (sum ss of ns values) and an unstressed
\* pool (sum su of nu values), with 1.02930 < 2^(1/24) < 1.02931 and
\* 1.05946 < 2^(1/12) < 1.05947
Claim_PitchScoreOk(score, ss, ns, su, nu) ==
    /\ ns = 0 \/ nu = 0 => score = 0
    /\ ns > 0 /\ nu > 0 =>
        /\ ss * nu <= su * ns => score = 0
        /\ ss * nu > su * ns /\ ss * nu * 100000 <= 102930 * (su * ns)
              => score = 10
        /\ ss * nu * 100000 >= 102931 * (su * ns)
              /\ ss * nu * 100000 <= 105946 * (su * ns) => score = 20
        /\ ss * nu * 100000 >= 105947 * (su * ns) => score = 30
        /\ ss = 220 * ns /\ su = 200 * nu => score = 30

\* C7: the pitch-contrast score is the table value of
\* ST = 12*log2(mean stressed pitch / mean unstressed pitch), both means over
\* the positive pitch values of all the speaker's words pooled: ST <= 0
\* gives 0, <= 0.5 gives 10, <= 1.0 gives 20, above gives 30; an empty pool
\* gives 0; means 220 Hz and 200 Hz give 30.
C7_PitchContrast ==
    \A i \in 1..Len(results) :
        LET s == results[i].speaker_id
            S == Claim_Stressed(s)
            U == Claim_Voiced(s) \ S
        IN  Claim_PitchScoreOk(results[i].f0_score,
                               SumOver(Claim_Pitch(S), S), Cardinality(S),
                               SumOver(Claim_Pitch(U), U), Cardinality(U))

C7_Witness ==
    /\ Evaluated
    /\ \E i \in 1..Len(results) :
           LET s == results[i].speaker_id
               S == Claim_Stressed(s)
               U == Claim_Voiced(s) \ S
           IN  /\ Cardinality({c[1] : c \in Claim_Voiced(s)}) >= 2
               /\ S # {} /\ U # {}
               /\ SumOver(Claim_Pitch(S), S) = 220 * Cardinality(S)
               /\ SumOver(Claim_Pitch(U), U) = 200 * Cardinality(U)
               /\ results[i].f0_score = 30

\* the rows of speaker s whose stress position and syllable durations parse
Claim_Timed(s) ==
    {i \in Claim_Words(s) :
        /\ stress_data[i].expectedStressPosition.t = "int"
        /\ stress_data[i].sylldur.t = "list"}

Claim_MultiSyllable(s) ==
    {i \in Claim_Timed(s) : Len(stress_data[i].sylldur.v) >= 2}

Claim_SingleSyllable(s) ==
    {i \in Claim_Timed(s) : Len(stress_data[i].sylldur.v) = 1}

Claim_StressedDur(i) ==
    stress_data[i].sylldur.v[stress_data[i].expectedStressPosition.v]

Claim_UnstressedDur(i) == SumSeq(stress_data[i].sylldur.v) - Claim_StressedDur(i)

\* stressed / mean(unstressed) >= 1.2
Claim_DurationCorrect(s) ==
    {i \in Claim_MultiSyllable(s) :
        Claim_StressedDur(i) * (Len(stress_data[i].sylldur.v) - 1) * 10
            >= 12 * Claim_UnstressedDur(i)}

Claim_DurationTable(correct, total) ==
    IF total = 0 THEN 0
    ELSE IF correct * 100 >= 80 * total THEN 15
    ELSE IF correct * 100 >= 60 * total THEN 10
    ELSE IF correct * 100 >= 40 * total THEN 5
    ELSE 0

\* C8: over the multi-syllable words of a speaker (each with its expected
\* stress position on one of its syllables), a word is correct iff stressed
\* duration / mean unstressed duration >= 1.2; the score is 15 for >= 80 %
\* correct, 10 for >= 60 %, 5 for >= 40 %, else 0, and 0 without any
\* multi-syllable word; single-syllable words count nowhere.
C8_DurationContrast ==
    \A i \in 1..Len(results) :
        LET s == results[i].speaker_id
            M == Claim_MultiSyllable(s)
        IN  (\A j \in M : stress_data[j].expectedStressPosition.v
                              \in 1..Len(stress_data[j].sylldur.v))
                => results[i].duration_score =
                       Claim_DurationTable(Cardinality(Claim_DurationCorrect(s)),
                                           Cardinality(M))

C8_Witness ==
    /\ Evaluated
    /\ \E i \in 1..Len(results) :
           LET s == results[i].speaker_id
               M == Claim_MultiSyllable(s)
           IN  /\ \A j \in M : stress_data[j].expectedStressPosition.v
                                   \in 1..Len(stress_data[j].sylldur.v)
               /\ Claim_SingleSyllable(s) # {}
               /\ Cardinality(M) = 4
               /\ Cardinality(Claim_DurationCorrect(s)) = 3
               /\ \E j \in Claim_DurationCorrect(s) :
                      Claim_StressedDur(j) * (Len(stress_data[j].sylldur.v) - 1) * 10
                          = 12 * Claim_UnstressedDur(j)
               /\ results[i].duration_score = 10

\* every row of speaker s has numeric times and an integer syllable count
Claim_SpeedRowsParse(s) ==
    \A i \in Claim_Words(s) :
        /\ stress_data[i].startTime.t \in {"int", "dec"}
        /\ stress_data[i].endTime.t \in {"int", "dec"}
        /\ stress_data[i].lenSyllxpos.t = "int"

Claim_WordLength == [i \in 1..Len(stress_data) |->
                        stress_data[i].endTime.v - stress_data[i].startTime.v]

Claim_Syllables == [i \in 1..Len(stress_data) |-> stress_data[i].lenSyllxpos.v]

\* the speed table on n syllables in d milliseconds
Claim_SpeedTable(n, d) ==
    IF d = 0 THEN 0
    ELSE IF n * 60000 >= 260 * d THEN 20
    ELSE IF n * 60000 >= 230 * d THEN 17
    ELSE IF n * 60000 >= 200 * d THEN 15
    ELSE IF n * 60000 >= 170 * d THEN 12
    ELSE IF n * 60000 >= 140 * d THEN 10
    ELSE IF n * 60000 >= 110 * d THEN 7
    ELSE IF n * 60000 >= 100 * d THEN 5
    ELSE 0

Claim_Flagged(s) ==
    {i \in Claim_Words(s) : stress_data[i].expectedIsObserved.t = "int"}

Claim_FlagTrue(s) ==
    {i \in Claim_Flagged(s) : stress_data[i].expectedIsObserved.v = 1}

Claim_AccuracyTable(correct, total) ==
    IF total = 0 THEN 0
    ELSE IF correct * 100 >= 70 * total THEN 15
    ELSE IF correct * 100 >= 55 * total THEN 10
    ELSE IF correct * 100 >= 40 * total THEN 5
    ELSE 0

\* C10: the stress-accuracy score of a speaker is 15 if the percentage of
\* the speaker's words whose StressAccuracyFlag is true is >= 70, 10 if
\* >= 55, 5 if >= 40, else 0, and 0 for a speaker without words.
C10_StressAccuracy ==
    \A i \in 1..Len(results) :
        LET s == results[i].speaker_id
        IN  results[i].stress_accuracy_score =
                Claim_AccuracyTable(Cardinality(Claim_FlagTrue(s)),
                                    Cardinality(Claim_Flagged(s)))

C10_Witness ==
    /\ Evaluated
    /\ \E i \in 1..Len(results) :
           LET s == results[i].speaker_id
           IN  /\ Cardinality(Claim_Flagged(s)) = 20
               /\ Cardinality(Claim_FlagTrue(s)) = 11
               /\ results[i].stress_accuracy_score = 10

\* the shapes a label such as "Oo/oO" holds: its parts between the "/"
Claim_Candidates(label) ==
    {SubSeq(label, a, b) : a \in 1..Len(label), b \in 1..Len(label)} \cap
    {SubSeq(label, a, b) : <<a, b>> \in
        {ab \in (1..Len(label)) \X (1..Len(label)) :
            /\ ab[1] <= ab[2]
            /\ \A i \in ab[1]..ab[2] : label[i] # "/"
            /\ ab[1] = 1 \/ label[ab[1] - 1] = "/"
            /\ ab[2] = Len(label) \/ label[ab[2] + 1] = "/"}}

Claim_IsAmbiguous(label) == \E i \in 1..Len(label) : label[i] = "/"

\* the words of the stress table have been written to stressTable.csv
Exported == step = "exported"

\* C11 (as stated): the StressAccuracyFlag of a word is true iff its
\* expected shape equals its merged observed shape; for the ambiguous label
\* of two candidates it is true iff the merged shape is one of the two.
C11_FlagMatches ==
    Exported =>
        \A k \in 1..Len(stressTable) :
            LET w == stressTable[k]
                match == IF Claim_IsAmbiguous(w.expectedShape)
                         THEN w.mergedShape \in Claim_Candidates(w.expectedShape)
                         ELSE w.expectedShape = w.mergedShape
            IN  (stress_data[k].expectedIsObserved.v = 1) <=> match

\* the abstract patterns the dictionary lines give a word
Claim_Patterns(w) ==
    {[i \in 1..Len(gab) |-> IF gab[i] = "1" THEN "O" ELSE "o"] :
        gab \in {patterns_of(gabarits, w)[k] : k \in 1..Len(patterns_of(gabarits, w))}}

Claim_StressedFirst == <<"O", "o">>

Claim_UnstressedFirst == <<"o", "O">>

Analysed == step = "pass1"

\* C12 (as stated): a word whose candidate patterns are exactly the two
\* mirrored two-syllable patterns gets stressed-first for NOUN and ADJ,
\* unstressed-first for VERB and the label of both candidates for any other
\* POS tag, whatever the number and order of the dictionary lines.
C12_MirrorPair ==
    Analysed =>
        \A k \in 1..Len(stressTable) :
            LET w == stressTable[k]
            IN  Claim_Patterns(lower(w.lab)) = {Claim_StressedFirst, Claim_UnstressedFirst}
                    => IF w.pos \in {"NOUN", "ADJ"}
                       THEN w.expectedShape = Claim_StressedFirst
                       ELSE IF w.pos = "VERB"
                       THEN w.expectedShape = Claim_UnstressedFirst
                       ELSE /\ Claim_IsAmbiguous(w.expectedShape)
                            /\ Claim_Candidates(w.expectedShape)
                                   = {Claim_StressedFirst, Claim_UnstressedFirst}

\* C13 (as stated): a single-syllable target word is expected "stressed"
\* for the POS tags NOUN, VERB, ADV, ADJ and "unstressed" for every other
\* tag, whatever stress digit the dictionary gives it.
C13_Monosyllabic ==
    Analysed =>
        \A k \in 1..Len(stressTable) :
            LET w == stressTable[k]
            IN  w.lenSyllxpos = 1
                    => w.expectedShape =
                           (IF w.pos \in {"NOUN", "VERB", "ADV", "ADJ"}
                            THEN <<"O">> ELSE <<"o">>)

\* the percentile scales have been built
ScalesBuilt == step \in {"deciles", "pass2", "exported"}

Claim_Dimensions == {<<"syllF0", "decsF0">>, <<"sylldB", "decsdB">>, <<"sylldur", "decsdur">>}

Claim_Min(values) ==
    CHOOSE m \in {values[i] : i \in 1..Len(values)} :
        \A i \in 1..Len(values) : m <= values[i]

Claim_Max(values) ==
    CHOOSE m \in {values[i] : i \in 1..Len(values)} :
        \A i \in 1..Len(values) : values[i] <= m

\* C14 (as stated): on every percentile scale built over the values V of a
\* speaker and dimension, the rank of min(V) is 0 and the rank of max(V)
\* is 99.
C14_RankEnds ==
    ScalesBuilt =>
        \A spk \in DOMAIN spk2deciles : \A dim \in Claim_Dimensions :
            LET V == spk2vals(stressTable, spk, dim[1])
                scale == spk2deciles[spk][dim[2]]
            IN  /\ getDecileNb(Claim_Min(V), scale) = 0
                /\ getDecileNb(Claim_Max(V), scale) = 99

\* C15 (as stated): every percentile scale built for a speaker and a
\* dimension has exactly 101 boundaries, the first is the minimum observed
\* value, the last is the maximum observed value, and the boundaries never
\* decrease.
C15_Scale ==
    ScalesBuilt =>
        \A spk \in DOMAIN spk2deciles : \A dim \in Claim_Dimensions :
            LET V == spk2vals(stressTable, spk, dim[1])
                scale == spk2deciles[spk][dim[2]]
            IN  /\ Len(scale) = 101
                /\ scale[1] = 100 * Claim_Min(V)
                /\ scale[101] = 100 * Claim_Max(V)
                /\ \A i \in 1..100 : scale[i] <= scale[i + 1]

\* pass 2 has derived the observed shapes of the words of the stress table
ShapesDerived == step \in {"pass2", "exported"}

Claim_ObservedShapes(w) ==
    {<<w.F0deciles, w.F0shape>>, <<w.dBdeciles, w.dBshape>>,
     <<w.durdeciles, w.durshape>>, <<w.deciles, w.mergedShape>>}

Claim_StressedMarks(shape) == {i \in 1..Len(shape) : shape[i] = "O"}

\* C16 (as stated): for every word of several syllables and each of its four
\* observed shapes (pitch, intensity, duration, merged), the shape has one
\* mark per syllable, a syllable is marked stressed iff its rank is the
\* maximum rank of the word's syllables, and the number of stressed marks is
\* at least 1 and at most the number of syllables.
C16_MaxMarking ==
    ShapesDerived =>
        \A k \in 1..Len(stressTable) :
            LET w == stressTable[k]
            IN  w.lenSyllxpos > 1 =>
                    \A rs \in Claim_ObservedShapes(w) :
                        /\ Len(rs[2]) = w.lenSyllxpos
                        /\ Len(rs[1]) = w.lenSyllxpos
                        /\ \A i \in 1..Len(rs[2]) :
                               rs[2][i] = "O" <=> rs[1][i] = Claim_Max(rs[1])
                        /\ \A i \in 1..Len(rs[2]) : rs[2][i] \in {"O", "o"}
                        /\ Cardinality(Claim_StressedMarks(rs[2])) >= 1
                        /\ Cardinality(Claim_StressedMarks(rs[2])) <= w.lenSyllxpos

\* the line without the spaces around it
Claim_Trim(line) ==
    LET inked == {i \in 1..Len(line) : line[i] # " "}
    IN  IF inked = {} THEN <<>>
        ELSE SubSeq(line, CHOOSE a \in inked : \A b \in inked : a <= b,
                          CHOOSE a \in inked : \A b \in inked : b <= a)

Claim_Gaps(text) == {i \in 1..(Len(text) - 1) : text[i] = " " /\ text[i + 1] = " "}

\* the place of the first double space of a text that has one
Claim_FirstGap(text) == CHOOSE i \in Claim_Gaps(text) : \A j \in Claim_Gaps(text) : i <= j

Claim_WordField(line) == SubSeq(Claim_Trim(line), 1, Claim_FirstGap(Claim_Trim(line)) - 1)

Claim_PhonemeField(line) ==
    SubSeq(Claim_Trim(line), Claim_FirstGap(Claim_Trim(line)) + 2, Len(Claim_Trim(line)))

\* the line is no comment and has the form "WORD  PHONEMES"
Claim_IsEntry(line) ==
    /\ ~(Len(line) >= 3 /\ SubSeq(line, 1, 3) = <<";", ";", ";">>)
    /\ Claim_Gaps(Claim_Trim(line)) # {}
    /\ Claim_Gaps(Claim_PhonemeField(line)) = {}

\* the lower-cased word of an entry, without its "(n)" suffix
Claim_Word(line) ==
    LET w == lower(Claim_WordField(line))
        n == Len(w)
    IN  IF n >= 3 /\ w[n - 2] = "(" /\ w[n - 1] \in Digits /\ w[n] = ")"
        THEN SubSeq(w, 1, n - 3)
        ELSE w

\* the stress digits of an entry, in phoneme order
Claim_StressDigits(line) ==
    SelectSeq(Claim_PhonemeField(line), LAMBDA c : c \in {"0", "1", "2"})

Claim_Shape(digits) == [i \in 1..Len(digits) |-> IF digits[i] = "1" THEN "O" ELSE "o"]

\* the dictionary built from the lines holds, as patterns of at least one
\* syllable, exactly the patterns of the entries, each under its word
Claim_DictionaryOf(dict, lines) ==
    /\ \A k \in 1..Len(dict) : \A j \in 1..Len(dict[k].gabs) :
           dict[k].gabs[j] # <<>> =>
               \E n \in 1..Len(lines) :
                   /\ Claim_IsEntry(lines[n])
                   /\ Claim_Word(lines[n]) = dict[k].w
                   /\ Claim_StressDigits(lines[n]) = dict[k].gabs[j]
    /\ \A n \in 1..Len(lines) :
           (Claim_IsEntry(lines[n]) /\ Claim_StressDigits(lines[n]) # <<>>) =>
               \E k \in 1..Len(dict) : \E j \in 1..Len(dict[k].gabs) :
                   /\ dict[k].w = Claim_Word(lines[n])
                   /\ dict[k].gabs[j] = Claim_StressDigits(lines[n])
    /\ \A k1, k2 \in 1..Len(dict) : dict[k1].w = dict[k2].w => k1 = k2
    /\ \A k \in 1..Len(dict) : \A j \in 1..Len(dict[k].gabs) :
           candidate_shapes(dict, dict[k].w)[j] = Claim_Shape(dict[k].gabs[j])
    /\ (\E n \in 1..Len(lines) : lines[n] = Line_camera) =>
           /\ has_word(dict, Lab_camera)
           /\ \E j \in 1..Len(candidate_shapes(dict, Lab_camera)) :
                  candidate_shapes(dict, Lab_camera)[j] = <<"O", "o", "o">>

\* C17: the stress dictionary maps each line "WORD  PHONEMES" to the
\* lower-cased word without its "(n)" suffix and to the pattern of the line's
\* stress digits in phoneme order, 0 and 2 unstressed and 1 stressed; the
\* entry "CAMERA  K AE1 M ER0 AH0" gives "camera" the pattern stressed,
\* unstressed, unstressed; the lines starting with ";;;" and the lines that
\* do not split into exactly two fields add nothing.  It holds of the
\* dictionary maker and of the dictionary the stress script builds.
C17_Dictionary ==
    /\ (call # <<>>) => Claim_DictionaryOf(call[1].ret, call[1].arg)
    /\ (step = "gabarits") => Claim_DictionaryOf(gabarits, cmu_dictionary)

\* the maker has read CAMERA, its variant CAMERA(1) and a comment line
C17_Witness ==
    /\ call # <<>>
    /\ {Line_camera, Line_camera1, Line_comment} = {call[1].arg[n] : n \in 1..Len(call[1].arg)}
    /\ \E k \in 1..Len(call[1].ret) :
           /\ call[1].ret[k].w = Lab_camera
           /\ Len(call[1].ret[k].gabs) = 2

\* the number of candidate shapes written in a label such as "Oo/oO"
Claim_NbCandidates(label) ==
    IF label = <<>> THEN 0
    ELSE 1 + Cardinality({i \in 1..Len(label) : label[i] = "/"})

\* C18 (as stated): the candidate patterns of a word are deduplicated as
\* stressed/unstressed patterns, so the list of candidate shapes of a word
\* never holds the same shape twice.
C18_NoDuplicateShapes ==
    Analysed =>
        \A k \in 1..Len(stressTable) :
            Claim_NbCandidates(stressTable[k].expectedShapes)
                = Cardinality(Claim_Candidates(stressTable[k].expectedShapes))

Claim_ClauseTags == {"S", "SBAR", "SBARQ", "SINV", "SQ"}

Claim_PhraseTags == {"ADJP", "ADVP", "CONJP", "FRAG", "INTJ", "LST", "NAC", "NP", "NX", "PP", "PRN", "PRT", "QP", "RRC", "UCP", "VP", "WHADJP", "WHAVP", "WHNP", "WHPP", "X"}

Claim_PauseType(left, right) ==
    IF {left, right} \cap Claim_ClauseTags # {} THEN "BC"
    ELSE IF {left, right} \cap Claim_PhraseTags # {} THEN "BP"
    ELSE "WP"

Claim_IsGap(intervalle) == intervalle.lab \in {"<p:>", ""}

Claim_InTaggingWindow(intervalle) == intervalle.dur >= 180 /\ intervalle.dur < 2000

\* C19 (as stated): a gap between words receives a pause type label iff its
\* duration d satisfies 0.18 <= d < 2.0; the label is BC if the constituent
\* ending on the left or starting on the right is a clause, otherwise BP if
\* one of them is a phrase, otherwise WP.
C19_PauseType ==
    (call # <<>> /\ Claim_IsGap(call[1].arg)) =>
        /\ (call[1].ret \in {"BC", "BP", "WP"}) <=> Claim_InTaggingWindow(call[1].arg)
        /\ Claim_InTaggingWindow(call[1].arg) =>
               call[1].ret = Claim_PauseType(call[1].arg.left, call[1].arg.right)

Claim_LongPauses(s) == {i \in Claim_Significant(s) : Claim_Durations[i] >= 1500}

\* the two speakers have as many pauses, as many significant pauses and as
\* many pauses of 1.5 s or more
Claim_SameCounts(s, t) ==
    /\ Cardinality(Claim_PauseIndexes(s)) = Cardinality(Claim_PauseIndexes(t))
    /\ Cardinality(Claim_Significant(s)) = Cardinality(Claim_Significant(t))
    /\ Cardinality(Claim_LongPauses(s)) = Cardinality(Claim_LongPauses(t))

\* the mean significant pause of s is strictly below that of t
Claim_LowerMean(s, t) ==
    /\ Claim_Significant(s) # {}
    /\ Claim_Significant(t) # {}
    /\ SumOver(Claim_Durations, Claim_Significant(s)) * Cardinality(Claim_Significant(t))
           < SumOver(Claim_Durations, Claim_Significant(t)) * Cardinality(Claim_Significant(s))

\* C20: of two speakers with the same pause counts, the one whose mean
\* significant pause is strictly lower has a pause score at least as high
\* as the other's.
C20_PauseMonotone ==
    \A i, j \in 1..Len(results) :
        (/\ Claim_SameCounts(results[i].speaker_id, results[j].speaker_id)
         /\ Claim_LowerMean(results[i].speaker_id, results[j].speaker_id))
            => results[i].pause_score >= results[j].pause_score

\* two speakers with three pauses each, one of them long: the means 0.9 s
\* and 1.5 s with 1.4 s pauses give 8 and 3
C20_Witness ==
    /\ Evaluated
    /\ \E i, j \in 1..Len(results) :
           /\ Claim_SameCounts(results[i].speaker_id, results[j].speaker_id)
           /\ Claim_LowerMean(results[i].speaker_id, results[j].speaker_id)
           /\ Cardinality(Claim_LongPauses(results[i].speaker_id)) = 1
           /\ Cardinality(Claim_Significant(results[i].speaker_id)) = 3
           /\ results[i].pause_score = 8
           /\ results[j].pause_score = 3

(***************************************************************************)
(* C21: the scores and scales of a speaker depend on that speaker's rows   *)
(* only                                                                    *)
(***************************************************************************)
Claim_OwnRows(table, spk) == SelectSeq(table, LAMBDA row : row.spk = spk)

Claim_SameScores == Len(call) = 2 => call[1].ret = call[2].ret

Claim_ScalesStage == step \in {"deciles", "raised"}

Claim_OwnScales(spk) ==
    /\ spk \in DOMAIN spk2deciles
    /\ spk2deciles[spk] = make_deciles(Claim_OwnRows(stressTable, spk))[spk]

\* C21: two calls of evaluate_speaker(s) on sessions that differ in the rows
\* of other speakers only return the same record, and once section 3 of the
\* stress script has run, every speaker with at least two measured syllables
\* has the percentile scales of its own rows, whatever the other speakers'
\* rows are
C21_OwnRowsOnly ==
    /\ Claim_SameScores
    /\ Claim_ScalesStage =>
          \A spk \in table_speakers(stressTable) :
              Len(spk2vals(stressTable, spk, "syllF0")) >= 2 => Claim_OwnScales(spk)

\* the evaluator half, which holds
C21_SameScores == Claim_SameScores

C21_Witness ==
    /\ Len(call) = 2
    /\ call[1].ret # <<>>
    /\ \E k \in 1..Len(stress_data) : stress_data[k].spk = "B"

(***************************************************************************)
(* C22: the ranges of the scores                                           *)
(***************************************************************************)
Claim_FinalScores == {0, 10, 15, 21, 26, 30}

\* C22: in every record of the evaluator's output the pause score is in
\* 0..20, the speed score in 0..20, the pitch score in 0..30, the duration
\* score in 0..15, the stress-accuracy score in 0..15, the raw score in
\* 0..100, the rescaled score in 0..30 (thousandths: 0..30000) and the final
\* score is one of 0, 10, 15, 21, 26, 30
C22_Ranges ==
    \A i \in 1..Len(results) :
        LET r == results[i]
        IN  /\ r.pause_score \in 0..20
            /\ r.speed_score \in 0..20
            /\ r.f0_score \in 0..30
            /\ r.duration_score \in 0..15
            /\ r.stress_accuracy_score \in 0..15
            /\ r.pronunciation_raw_score \in 0..100
            /\ r.pronunciation_30_score \in 0..30000
            /\ r.pronunciation_final_score \in Claim_FinalScores
            /\ r.final_score \in Claim_FinalScores

\* one speaker at the top of every range and one at the bottom
C22_Witness ==
    /\ Evaluated
    /\ \E i, j \in 1..Len(results) :
          /\ SubScores(results[i]) = <<20, 20, 30, 15, 15>>
          /\ results[i].pronunciation_raw_score = 100
          /\ results[i].pronunciation_30_score = 30000
          /\ results[i].final_score = 30
          /\ results[j].pronunciation_raw_score < 20
          /\ results[j].final_score = 0

(***************************************************************************)
(* C23: the target words and the length of their expected shape            *)
(***************************************************************************)
\* the word occurrence a row of the stress table was made from
Claim_Occurrence(w) == grid[w.id]

Claim_Nuclei(w) == Len(Claim_Occurrence(w).vowels)

\* C23: a word occurrence has a row in the stress table only if the number of
\* its vowel nuclei is the length of one of the candidate patterns of the
\* word, and an expected shape that is not an ambiguous label has as many
\* marks as the occurrence has measured syllables
C23_PatternLength ==
    Analysed =>
        \A k \in 1..Len(stressTable) :
            LET w == stressTable[k]
            IN  /\ has_word(gabarits, lower(w.lab))
                /\ \E gab \in Claim_Patterns(lower(w.lab)) : Len(gab) = Claim_Nuclei(w)
                /\ ~Claim_IsAmbiguous(w.expectedShape) =>
                      /\ Len(w.expectedShape) = Claim_Nuclei(w)
                      /\ Len(w.expectedShape) = w.lenSyllxpos
                      /\ Len(w.expectedShape) = Len(w.syllF0)
                      /\ Len(w.expectedShape) = Len(w.sylldB)
                      /\ Len(w.expectedShape) = Len(w.sylldur)

\* a word with candidate patterns of two and of three syllables, said with
\* two: the two-syllable pattern is its expected shape
C23_Witness ==
    /\ Analysed
    /\ \E k \in 1..Len(stressTable) :
          LET w == stressTable[k]
          IN  /\ {Len(gab) : gab \in Claim_Patterns(lower(w.lab))} = {2, 3}
              /\ Claim_Nuclei(w) = 2
              /\ ~Claim_IsAmbiguous(w.expectedShape)
              /\ Len(w.expectedShape) = 2

(***************************************************************************)
(* C24: the barrier between the two passes                                 *)
(***************************************************************************)
Claim_Ranked(w) == w.F0deciles # <<>> \/ w.dBdeciles # <<>> \/ w.durdeciles # <<>>

\* the scales of a speaker over the values of all the speaker's target words
Claim_CompleteScales(spk) == make_deciles(pass1(gabarits, grid, 1))[spk]

\* sections 2 and 3 of the script are over
Claim_PastBarrier == step \notin {"input", "gabarits", "pass1"}

Claim_RankedAfterScales ==
    \A k \in 1..Len(stressTable) :
        Claim_Ranked(stressTable[k]) =>
            /\ Claim_PastBarrier
            /\ stressTable[k].spk \in DOMAIN spk2deciles
            /\ spk2deciles[stressTable[k].spk] = Claim_CompleteScales(stressTable[k].spk)

Claim_ScalesFrozen == ScalesBuilt => spk2deciles' = spk2deciles

\* C24: a syllable of a speaker has a rank only once the scales of the speaker
\* are built over the values of all the speaker's target words, and a scale
\* that is built never changes while the shapes are derived and exported
C24_Barrier == [](Claim_RankedAfterScales) /\ [][Claim_ScalesFrozen]_vars

\* the second word of a speaker is being ranked after the first one
C24_Witness ==
    /\ step = "deciles"
    /\ Len(call) = 1
    /\ Len(stressTable) = 2
    /\ stressTable[1].spk = stressTable[2].spk
    /\ Claim_Ranked(stressTable[1])
    /\ ~Claim_Ranked(stressTable[2])

(***************************************************************************)
(* C26: the identifiers that link the intervals to the rows                *)
(***************************************************************************)
Claim_PassTwoOver == step = "pass2"

\* the shape of a row is the one its own values give on the speaker's scales
Claim_OwnShapes(w) ==
    /\ Claim_Ranked(w)
    /\ w = pass2_row(w, spk2deciles)

\* C26: once pass 2 is over every row of the stress table holds the ranks and
\* shapes computed from its own values, no two intervals of the ObservedShape
\* tier were resolved to the same row, and the interval of the k-th target
\* word holds the merged shape of the k-th row
C26_OwnRecord ==
    Claim_PassTwoOver =>
        /\ Len(call) = Len(stressTable)
        /\ \A k \in 1..Len(stressTable) : Claim_OwnShapes(stressTable[k])
        /\ \A i, j \in 1..Len(call) :
              i # j => row_of_token(stressTable, call[i].arg)
                           # row_of_token(stressTable, call[j].arg)
        /\ \A k \in 1..Len(call) : call[k].ret = stressTable[k].mergedShape

\* the part that holds: rows with distinct identifiers
C26_DistinctTokens ==
    (Claim_PassTwoOver /\ \A i, j \in 1..Len(stressTable) :
                              i # j => stressTable[i].id # stressTable[j].id)
        => \A k \in 1..Len(stressTable) :
              /\ Claim_OwnShapes(stressTable[k])
              /\ call[k].ret = stressTable[k].mergedShape

(***************************************************************************)
(* C25: one speaker id per recording in both tables                        *)
(***************************************************************************)
\* C25: the k-th recording of a session has the same speaker id on its row
\* of the stress table and on its row of the pause table, and every record of
\* the evaluator's output is computed from rows of both tables
C25_SameSpeakerId ==
    /\ \A k \in 1..Len(pause_data) : stress_data[k].spk = pause_data[k].spk
    /\ Evaluated =>
          \A i \in 1..Len(results) :
              /\ RowsOf(stress_data, results[i].speaker_id) # <<>>
              /\ RowsOf(pause_data, results[i].speaker_id) # <<>>

\* the part that holds: file names without a _<number> suffix
C25_PlainNames ==
    \A k \in 1..Len(pause_data) :
        pause_data[k].spk = "A" => stress_data[k].spk = "A"

(***************************************************************************)
(* C27: the stressed syllable of calculate_duration_score                  *)
(***************************************************************************)
\* the rows of speaker s that reach "total_words += 1"
Claim_Counted(s) == {i \in Claim_Words(s) : duration_row_counted(stress_data[i])}

Claim_Position(i) == stress_data[i].expectedStressPosition.v

\* C27: every row counted by calculate_duration_score has its expected
\* stress position on one of its syllables (so that the stressed duration is
\* the one of that syllable and the other syllables are the unstressed ones),
\* and a speaker whose counted words all have the expected stress position 0
\* has no correct word: a duration score of 0
C27_StressedSyllable ==
    /\ \A i \in 1..Len(stress_data) :
          duration_row_counted(stress_data[i])
              => Claim_Position(i) \in 1..Len(stress_data[i].sylldur.v)
    /\ \A i \in 1..Len(results) :
          LET s == results[i].speaker_id
          IN  (\A j \in Claim_Counted(s) : Claim_Position(j) = 0)
                  => results[i].duration_score = 0

\* the part that holds: a counted row with its stress position on one of its
\* syllables is correct iff that syllable is at least 1.2 times as long as
\* the mean of the others
C27_PositionOnSyllable ==
    \A i \in 1..Len(stress_data) :
        (duration_row_counted(stress_data[i])
             /\ Claim_Position(i) \in 1..Len(stress_data[i].sylldur.v))
            => (duration_row_correct(stress_data[i])
                    <=> Claim_StressedDur(i) * (Len(stress_data[i].sylldur.v) - 1) * 10
                            >= 12 * Claim_UnstressedDur(i))

(***************************************************************************)
(* C28: the parse-tree context of a pause                                  *)
(***************************************************************************)
Claim_PausesAnalysed == step = "pauses"

\* the parse-tree entry of the last word of interval i
Claim_LastEntry(i) == grid[i].parse[Len(grid[i].parse)]

\* the parse-tree entry of the first word of interval i
Claim_FirstEntry(i) == grid[i].parse[1]

\* a pause between two words
Claim_Inner(row) ==
    /\ row.i > 1
    /\ row.i < Len(grid)
    /\ ~is_pause(grid[row.i - 1])
    /\ ~is_pause(grid[row.i + 1])

\* C28: on every row of a pause between two words, the left tag and depth are
\* those of the parse-tree entry of the word just before the pause, the
\* right tag and depth those of the word just after it, and boundaryStrength
\* is the number of constituents closing after the left word plus the number
\* opening before the right word
C28_Boundary ==
    Claim_PausesAnalysed =>
        \A k \in 1..Len(pause_data) :
            LET row == pause_data[k]
                left == Claim_LastEntry(row.i - 1)
                right == Claim_FirstEntry(row.i + 1)
            IN  Claim_Inner(row) =>
                    /\ row.wordLeftTagw = left.tag
                    /\ row.wordLeftDepth = left.depth
                    /\ row.wordRightTagw = right.tag
                    /\ row.wordRightDepth = right.depth
                    /\ row.boundaryStrength = left.closing + right.opening

\* no word of the tier before the pause is a suffix of the word on its left
Claim_NoEarlierSuffix(row) ==
    \A j \in 1..(row.i - 2) :
        \A e \in 1..Len(grid[j].parse) :
            ~ends_with(grid[row.i - 1].lab, grid[j].parse[e].word)

\* the part that holds: the first pause of a tier, between two words, when no
\* earlier word is a suffix of the word on its left
C28_FirstPause ==
    Claim_PausesAnalysed =>
        \A k \in 1..Len(pause_data) :
            LET row == pause_data[k]
                left == Claim_LastEntry(row.i - 1)
                right == Claim_FirstEntry(row.i + 1)
            IN  (Claim_Inner(row) /\ Claim_NoEarlierSuffix(row)
                     /\ \A j \in 1..(row.i - 1) : ~is_pause(grid[j]))
                    => /\ row.wordLeftTagw = left.tag
                       /\ row.wordRightTagw = right.tag
                       /\ row.boundaryStrength = left.closing + right.opening

(***************************************************************************)
(* C29: the ranks of the values a scale was built from                     *)
(***************************************************************************)
Claim_Values(spk, dim) ==
    LET V == spk2vals(stressTable, spk, dim)
    IN  {V[i] : i \in 1..Len(V)}

\* C29: on every scale, each value the scale was built from has a rank in
\* 0..99, and of two such values the smaller one never has the higher rank
C29_RankMonotoneTotal ==
    ScalesBuilt =>
        \A spk \in DOMAIN spk2deciles : \A dim \in Claim_Dimensions :
            LET scale == spk2deciles[spk][dim[2]]
            IN  \A v1, v2 \in Claim_Values(spk, dim[1]) :
                    /\ getDecileNb(v1, scale) \in 0..99
                    /\ (v1 # nan /\ v2 # nan /\ v1 <= v2)
                           => getDecileNb(v1, scale) <= getDecileNb(v2, scale)

\* the part that holds: the values that are defined
C29_DefinedValues ==
    ScalesBuilt =>
        \A spk \in DOMAIN spk2deciles : \A dim \in Claim_Dimensions :
            LET scale == spk2deciles[spk][dim[2]]
            IN  \A v1, v2 \in Claim_Values(spk, dim[1]) \ {nan} :
                    /\ getDecileNb(v1, scale) \in 0..99
                    /\ v1 <= v2 => getDecileNb(v1, scale) <= getDecileNb(v2, scale)

(***************************************************************************)
(* C30: the merged rank and the sum of the three ranks                     *)
(***************************************************************************)
Claim_RankSum(triple) == triple[1] + triple[2] + triple[3]

\* C30: of two syllables of a word, the one with the smaller merged rank is
\* the one with the smaller sum of its three ranks; the merged shape of a
\* word of several syllables marks exactly the syllables whose sum is the
\* highest of the word; the merged shape of a single-syllable word is
\* stressed iff the three ranks sum to at least 150
C30_MergedRank ==
    \A k \in 1..Len(call) :
        LET ranks == call[k].arg
            decAll == call[k].ret.deciles
            shape == call[k].ret.mergedShape
        IN  /\ Len(decAll) = Len(ranks)
            /\ Len(shape) = Len(ranks)
            /\ \A i, j \in 1..Len(ranks) :
                  decAll[i] < decAll[j]
                      <=> Claim_RankSum(ranks[i]) < Claim_RankSum(ranks[j])
            /\ Len(ranks) > 1 =>
                  \A i \in 1..Len(ranks) :
                      shape[i] = "O"
                          <=> \A j \in 1..Len(ranks) :
                                  Claim_RankSum(ranks[j]) <= Claim_RankSum(ranks[i])
            /\ Len(ranks) = 1 =>
                  (shape[1] = "O" <=> Claim_RankSum(ranks[1]) >= 150)
            /\ \A i \in 1..Len(ranks) : shape[i] \in {"O", "o"}

\* two syllables whose sums are 149 and 150: merged ranks 49.7 and 50.0
C30_Witness ==
    /\ Len(call) = 1
    /\ Len(call[1].arg) = 2
    /\ Claim_RankSum(call[1].arg[1]) = 149
    /\ Claim_RankSum(call[1].arg[2]) = 150
    /\ call[1].ret.deciles = <<497, 500>>
    /\ call[1].ret.mergedShape = <<"o", "O">>

=============================================================================
